---- MODULE Spec2Model ----
(***************************************************************************)
(* Model of the encrypted-string engine of tfhe_strings (MyServerKey).     *)
(* A ciphertext is modelled by the byte it decrypts to; every homomorphic  *)
(* operation is modelled by its effect on the decrypted bytes, with u8     *)
(* wrap-around.  An FheString is the sequence of its bytes; source index i *)
(* (0-based) is TLA+ index i + 1.                                          *)
(***************************************************************************)
EXTENDS Integers, Sequences, FiniteSets, TLC

VARIABLES op, string, pattern, other, to, n, pc, ret, out, buffers, evals,
          scan, position, conditions

vars == << op, string, pattern, other, to, n, pc, ret, out, buffers, evals,
           scan, position, conditions >>

(***************************************************************************)
(* Program constants and the bounds of the explored inputs.                *)
(***************************************************************************)
MAX_FIND_LENGTH == 255

ByteMod == 256

\* longest real content of a haystack
MaxLen == 3
\* most trailing zero bytes of a haystack
MaxPad == 1
\* longest pattern
MaxPat == 2
\* longest replacement pattern
MaxTo == 2
\* largest count given to replacen, splitn
MaxN == 3
\* haystack capacities explored around MAX_FIND_LENGTH: 255 - CapSpan .. 255 + CapSpan
CapSpan == 2

Letters == {97, 98}

(***************************************************************************)
(* FheAsciiChar: the homomorphic byte operations.                          *)
(***************************************************************************)
zero == 0

one == 1

eq(a, b) == IF a = b THEN 1 ELSE 0

ne(a, b) == IF a # b THEN 1 ELSE 0

le(a, b) == IF a <= b THEN 1 ELSE 0

lt(a, b) == IF a < b THEN 1 ELSE 0

ge(a, b) == IF a >= b THEN 1 ELSE 0

gt(a, b) == IF a > b THEN 1 ELSE 0

RECURSIVE BitwiseAnd(_, _)
BitwiseAnd(a, b) ==
  IF a = 0 \/ b = 0 THEN 0
  ELSE (a % 2) * (b % 2) + 2 * BitwiseAnd(a \div 2, b \div 2)

RECURSIVE BitwiseOr(_, _)
BitwiseOr(a, b) ==
  IF a = 0 THEN b
  ELSE IF b = 0 THEN a
  ELSE (IF a % 2 = 1 \/ b % 2 = 1 THEN 1 ELSE 0) + 2 * BitwiseOr(a \div 2, b \div 2)

bitand(a, b) == BitwiseAnd(a, b)

bitor(a, b) == BitwiseOr(a, b)

add(a, b) == (a + b) % ByteMod

sub(a, b) == (a - b) % ByteMod

\* the value of a select whose condition is neither 0 nor 1: no byte at all
Undefined == 256

if_then_else(cond, true_value, false_value) ==
  IF cond = 1 THEN true_value
  ELSE IF cond = 0 THEN false_value
  ELSE Undefined

flip(b) == sub(one, b)

\* `i as u8`
as_u8(i) == i % ByteMod

\* e, with the running value acc of a loop computed first: the loops below
\* thread their accumulator strictly, as the imperative code does
Eager(acc, e) == IF acc = acc THEN e ELSE e

(***************************************************************************)
(* Helpers on byte sequences.                                              *)
(***************************************************************************)
Zeros(k) == [i \in 1..k |-> 0]

\* Vec::push
push(s, b) == Append(s, b)

\* the conjunction of the byte equalities of pattern against the window of
\* s at source offset i (the inner `for j` loops), folded from `one`
RECURSIVE window_flag(_, _, _, _)
window_flag(s, p, i, j) ==
  IF j = 0 THEN one
  ELSE bitand(window_flag(s, p, i, j - 1), eq(s[i + j], p[j]))

pattern_found_at(s, p, i) == window_flag(s, p, i, Len(p))

(***************************************************************************)
(* utils: helpers of the engine.                                           *)
(***************************************************************************)
abs_difference(a, b) == IF a >= b THEN a - b ELSE b - a

\* a loop bound of 0 becomes 1, so that the loop body runs once
adjust_end_of_pattern(end_of_pattern) ==
  IF end_of_pattern = 0 THEN 1 ELSE end_of_pattern

NonZero(s) == SelectSeq(s, LAMBDA b : b # 0)

\* stable compaction: the non-zero bytes in order, then the zero bytes
bubble_zeroes_right(s) == NonZero(s) \o Zeros(Len(s) - Len(NonZero(s)))

\* stable compaction: the zero bytes, then the non-zero bytes in order
bubble_zeroes_left(s) == Zeros(Len(s) - Len(NonZero(s))) \o NonZero(s)

(***************************************************************************)
(* contains                                                                *)
(***************************************************************************)
\* `for i in 0..=end_of_pattern`: offsets lo..hi in ascending order, each
\* or-ed into result (the range is folded in halves, in the loop's order)
RECURSIVE contains_loop(_, _, _, _, _)
contains_loop(s, needle, lo, hi, result) ==
  Eager(result,
    IF lo > hi THEN result
    ELSE IF lo = hi THEN bitor(result, pattern_found_at(s, needle, lo))
    ELSE LET mid == (lo + hi) \div 2 IN
         contains_loop(s, needle, mid + 1, hi,
                       contains_loop(s, needle, lo, mid, result)))

\* mutant: the scan stops one offset early (`0..end` for `0..=end`)
contains_short_scan(s, needle) ==
  IF Len(s) = 0 /\ Len(needle) = 0 THEN one
  ELSE IF Len(s) < Len(needle) THEN zero
  ELSE contains_loop(s, needle, 0, Len(s) - Len(needle) - 1, zero)

contains(s, needle) ==
  IF Len(s) = 0 /\ Len(needle) = 0 THEN one
  ELSE IF Len(s) < Len(needle) THEN zero
  ELSE contains_loop(s, needle, 0, Len(s) - Len(needle), zero)

(***************************************************************************)
(* find                                                                    *)
(***************************************************************************)
\* mutant: the capacity check lets one more byte through (`>` for `>=`)
find_panics_off_by_one(s, p) == Len(s) > MAX_FIND_LENGTH + Len(p)

\* mutant: the capacity check adds the pattern length to the haystack's
find_panics_on_sum(s, p) == Len(s) + Len(p) > MAX_FIND_LENGTH

\* the capacity check of find
find_panics(s, p) == Len(s) >= MAX_FIND_LENGTH + Len(p)

\* `for i in (0..=end_of_pattern).rev()`: offsets hi down to lo, each
\* overwriting pattern_position when its window matches (the range is
\* folded in halves, in the loop's order)
RECURSIVE find_loop(_, _, _, _, _)
find_loop(s, p, lo, hi, pattern_position) ==
  Eager(pattern_position,
    IF lo > hi THEN pattern_position
    ELSE IF lo = hi
      THEN if_then_else(pattern_found_at(s, p, lo), as_u8(lo), pattern_position)
    ELSE LET mid == (lo + hi) \div 2 IN
         find_loop(s, p, lo, mid, find_loop(s, p, mid + 1, hi, pattern_position)))

find(s, p) ==
  IF Len(s) = 0 /\ Len(p) = 0 THEN 0
  ELSE IF Len(s) < Len(p) THEN 255
  ELSE find_loop(s, p, 0, Len(s) - Len(p), as_u8(MAX_FIND_LENGTH))

\* the byte equalities find evaluates
find_evals(s, p) ==
  IF Len(s) = 0 /\ Len(p) = 0 THEN 0
  ELSE IF Len(s) < Len(p) THEN 0
  ELSE (Len(s) - Len(p) + 1) * Len(p)

(***************************************************************************)
(* rfind                                                                   *)
(***************************************************************************)
\* the capacity check of rfind, made after the zero byte has been pushed
rfind_panics(s, p) == Len(push(s, zero)) >= MAX_FIND_LENGTH + Len(p)

\* empty pattern, `for i in 0..string.len()`: offsets lo..hi ascending, each
\* non-zero byte overwriting the position with i + 1
RECURSIVE last_non_zero_loop(_, _, _, _)
last_non_zero_loop(s, lo, hi, last_non_zero_position) ==
  Eager(last_non_zero_position,
    IF lo > hi THEN last_non_zero_position
    ELSE IF lo = hi
      THEN if_then_else(ne(s[lo + 1], zero), as_u8(lo + 1), last_non_zero_position)
    ELSE LET mid == (lo + hi) \div 2 IN
         last_non_zero_loop(s, mid + 1, hi,
                            last_non_zero_loop(s, lo, mid, last_non_zero_position)))

\* `for i in 0..end_of_pattern`: offsets lo..hi in ascending order, each
\* overwriting pattern_position when its window matches
RECURSIVE rfind_loop(_, _, _, _, _)
rfind_loop(s, p, lo, hi, pattern_position) ==
  Eager(pattern_position,
    IF lo > hi THEN pattern_position
    ELSE IF lo = hi
      THEN if_then_else(pattern_found_at(s, p, lo), as_u8(lo), pattern_position)
    ELSE LET mid == (lo + hi) \div 2 IN
         rfind_loop(s, p, mid + 1, hi, rfind_loop(s, p, lo, mid, pattern_position)))

\* mutant: the scan runs from the right, so the leftmost match is kept
rfind_keeps_first(s0, p) ==
  LET s == push(s0, zero) IN
  IF Len(p) = 0 THEN last_non_zero_loop(s, 0, Len(s) - 1, zero)
  ELSE IF Len(s) < Len(p) THEN 255
  ELSE find_loop(s, p, 0, adjust_end_of_pattern(Len(s) - Len(p)) - 1,
                 as_u8(MAX_FIND_LENGTH))

rfind(s0, p) ==
  LET s == push(s0, zero) IN
  IF Len(p) = 0 THEN last_non_zero_loop(s, 0, Len(s) - 1, zero)
  ELSE IF Len(s) < Len(p) THEN 255
  ELSE rfind_loop(s, p, 0, adjust_end_of_pattern(Len(s) - Len(p)) - 1,
                  as_u8(MAX_FIND_LENGTH))

\* the byte comparisons rfind evaluates
rfind_evals(s0, p) ==
  LET s == push(s0, zero) IN
  IF Len(p) = 0 THEN Len(s)
  ELSE IF Len(s) < Len(p) THEN 0
  ELSE adjust_end_of_pattern(Len(s) - Len(p)) * Len(p)

(***************************************************************************)
(* replace / replacen: handle_longer_from, the path from.len() >= to.len() *)
(***************************************************************************)
\* `Stop replacing after n encounters of from`: the counter after this
\* offset and the flag that survives it
count_match(counter, pattern_found_flag, cnt, use_counter) ==
  IF use_counter
    THEN LET c == add(counter, pattern_found_flag) IN
         [counter |-> c, flag |-> bitand(pattern_found_flag, ge(cnt, c))]
    ELSE [counter |-> counter, flag |-> pattern_found_flag]

\* one iteration of `for i in 0..end_of_pattern`: the flag is read from
\* bytes (the input), the bytes are written to result
longer_from_step(st, bytes, from, padded_to, cnt, use_counter, i) ==
  LET cm == count_match(st.counter, pattern_found_at(bytes, from, i),
                        cnt, use_counter)
  IN [counter |-> cm.counter,
      result |-> [K \in 1..Len(st.result) |->
                    IF K - 1 >= i /\ K - 1 < i + Len(padded_to)
                      THEN if_then_else(cm.flag, padded_to[K - i], st.result[K])
                      ELSE st.result[K]]]

RECURSIVE longer_from_loop(_, _, _, _, _, _, _, _)
longer_from_loop(st, bytes, from, padded_to, cnt, use_counter, lo, hi) ==
  Eager(st,
    IF lo > hi THEN st
    ELSE IF lo = hi
      THEN longer_from_step(st, bytes, from, padded_to, cnt, use_counter, lo)
    ELSE LET mid == (lo + hi) \div 2 IN
         longer_from_loop(
           longer_from_loop(st, bytes, from, padded_to, cnt, use_counter, lo, mid),
           bytes, from, padded_to, cnt, use_counter, mid + 1, hi))

handle_longer_from(bytes0, from, to0, cnt, use_counter) ==
  LET bytes == push(bytes0, zero)
      size_difference == abs_difference(Len(from), Len(to0))
      padded_to == to0 \o Zeros(size_difference)
      st0 == [counter |-> 0, result |-> bytes]
      st == IF Len(from) <= Len(bytes)
              THEN longer_from_loop(st0, bytes, from, padded_to, cnt, use_counter,
                     0, adjust_end_of_pattern(Len(bytes) - Len(from)) - 1)
              ELSE st0
  IN bubble_zeroes_right(st.result)

(***************************************************************************)
(* replace / replacen: handle_shorter_from, the path from.len() < to.len() *)
(***************************************************************************)
max_possible_output_len(bytes, from, to0) ==
  IF Len(from) = 0
    THEN (Len(bytes) + (Len(bytes) + 1) * Len(to0)) + 1
    ELSE IF Len(bytes) = 0 THEN Len(to0)
    ELSE Len(to0) * Len(bytes) + Len(bytes)

\* the match flag at offset i: every byte of from equal to the result byte
\* and not masked as written by an earlier replacement
RECURSIVE masked_flag(_, _, _, _, _)
masked_flag(result, mask, from, i, j) ==
  IF j = 0 THEN one
  ELSE bitand(bitand(masked_flag(result, mask, from, i, j - 1),
                     eq(from[j], result[i + j])),
              mask[i + j])

\* one iteration of `for i in 0..result.len() - to.len()`
shorter_from_step(st, from, to0, cnt, use_counter, i) ==
  LET size_difference == abs_difference(Len(from), Len(to0))
      raw == IF Len(from) = 0
               THEN (IF i % (Len(to0) + 1) = 0 THEN one ELSE zero)
               ELSE masked_flag(st.result, st.mask, from, i, Len(from))
      cm == count_match(st.counter, raw, cnt, use_counter)
      copy_buffer == [K \in 1..Len(st.result) |->
                        if_then_else(cm.flag, st.result[K], zero)]
  IN [counter |-> cm.counter,
      result |-> [K \in 1..Len(st.result) |->
                    IF K - 1 < i THEN st.result[K]
                    ELSE IF K - 1 < i + Len(to0)
                      THEN if_then_else(cm.flag, to0[K - i], st.result[K])
                    ELSE if_then_else(cm.flag, copy_buffer[K - size_difference],
                                      st.result[K])],
      mask |-> [K \in 1..Len(st.mask) |->
                  IF K - 1 >= i /\ K - 1 < i + Len(to0)
                    THEN bitand(st.mask[K], if_then_else(cm.flag, zero, one))
                    ELSE st.mask[K]]]

RECURSIVE shorter_from_loop(_, _, _, _, _, _, _)
shorter_from_loop(st, from, to0, cnt, use_counter, lo, hi) ==
  Eager(st,
    IF lo > hi THEN st
    ELSE IF lo = hi THEN shorter_from_step(st, from, to0, cnt, use_counter, lo)
    ELSE LET mid == (lo + hi) \div 2 IN
         shorter_from_loop(
           shorter_from_loop(st, from, to0, cnt, use_counter, lo, mid),
           from, to0, cnt, use_counter, mid + 1, hi))

handle_shorter_from(bytes0, from, to0, cnt, use_counter) ==
  LET bytes == push(bytes0, zero)
      max_len == max_possible_output_len(bytes, from, to0)
      st0 == [counter |-> 0,
              result |-> bytes \o Zeros(max_len - Len(bytes)),
              mask |-> [K \in 1..max_len |-> one]]
  IN shorter_from_loop(st0, from, to0, cnt, use_counter,
                       0, max_len - Len(to0) - 1).result

replace(s, from, to0) ==
  IF Len(from) >= Len(to0)
    THEN handle_longer_from(s, from, to0, 0, FALSE)
    ELSE handle_shorter_from(s, from, to0, 0, FALSE)

replacen(s, from, to0, cnt) ==
  IF Len(from) >= Len(to0)
    THEN handle_longer_from(s, from, to0, cnt, TRUE)
    ELSE handle_shorter_from(s, from, to0, cnt, TRUE)

(***************************************************************************)
(* starts_with, len                                                        *)
(***************************************************************************)
starts_with(s, p) ==
  IF Len(p) > Len(s) THEN zero
  ELSE IF Len(s) = 0 /\ Len(p) = 0 THEN one
  ELSE pattern_found_at(s, p, 0)

\* the number of non-zero bytes, added up as a u8
RECURSIVE len_loop(_, _, _, _)
len_loop(s, lo, hi, result) ==
  Eager(result,
    IF lo > hi THEN result
    ELSE IF lo = hi THEN add(result, ne(s[lo + 1], zero))
    ELSE LET mid == (lo + hi) \div 2 IN
         len_loop(s, mid + 1, hi, len_loop(s, lo, mid, result)))

len(s) == IF Len(s) = 0 THEN zero ELSE len_loop(s, 0, Len(s) - 1, zero)

(***************************************************************************)
(* The split engine: _split and _rsplit.                                   *)
(***************************************************************************)
\* n: Option<FheAsciiChar> is None
NoCount == -1

\* `Copy ith character to the appropriate buffer`: column i of every buffer
copy_char(result, s, current_copy_buffer, cnt, allow_copying, i) ==
  [J \in 1..Len(result) |->
    LET flag == eq(as_u8(J - 1), current_copy_buffer)
        copy_flag == IF cnt # NoCount THEN bitand(flag, allow_copying) ELSE flag
    IN [K \in 1..Len(result[J]) |->
          IF K = i + 1 THEN if_then_else(copy_flag, s[i + 1], result[J][K])
          ELSE result[J][K]]]

\* _split: the pattern ends at position i
split_pattern_found(s, p, i) ==
  IF i < Len(p) - 1 THEN zero ELSE pattern_found_at(s, p, i - Len(p) + 1)

\* _rsplit: the pattern starts at position i
rsplit_pattern_found(s, p, i) ==
  IF i + Len(p) >= Len(s) THEN zero ELSE pattern_found_at(s, p, i)

\* advance_buffer whose stop flag is sum-accumulated instead of or-accumulated
advance_buffer_sum(st, pattern_found, cnt) ==
  IF cnt = NoCount
    THEN [current_copy_buffer |->
            if_then_else(pattern_found, add(st.current_copy_buffer, one),
                         st.current_copy_buffer),
          stop_counter_increment |-> st.stop_counter_increment]
    ELSE LET stop == add(st.stop_counter_increment,
                         eq(st.current_copy_buffer, sub(cnt, one)))
         IN [current_copy_buffer |->
               if_then_else(bitand(pattern_found, flip(stop)),
                            add(st.current_copy_buffer, one),
                            st.current_copy_buffer),
             stop_counter_increment |-> stop]

\* `If its splitn stop after n splits`: the buffer index and the stop flag
\* after position i
advance_buffer(st, pattern_found, cnt) ==
  IF cnt = NoCount
    THEN [current_copy_buffer |->
            if_then_else(pattern_found, add(st.current_copy_buffer, one),
                         st.current_copy_buffer),
          stop_counter_increment |-> st.stop_counter_increment]
    ELSE LET stop == bitor(st.stop_counter_increment,
                           eq(st.current_copy_buffer, sub(cnt, one)))
         IN [current_copy_buffer |->
               if_then_else(bitand(pattern_found, flip(stop)),
                            add(st.current_copy_buffer, one),
                            st.current_copy_buffer),
             stop_counter_increment |-> stop]

\* one position of the scan; pattern_found is the match flag of the position
scan_step(st, s, pattern_found, cnt, allow_copying, i) ==
  LET adv == advance_buffer(st, pattern_found, cnt)
  IN [result |-> copy_char(st.result, s, st.current_copy_buffer, cnt,
                           allow_copying, i),
      current_copy_buffer |-> adv.current_copy_buffer,
      stop_counter_increment |-> adv.stop_counter_increment,
      global_pattern_found |-> bitand(st.global_pattern_found, pattern_found)]

split_step(st, s, p, cnt, allow_copying, i) ==
  scan_step(st, s, split_pattern_found(s, p, i), cnt, allow_copying, i)

rsplit_step(st, s, p, cnt, allow_copying, i) ==
  scan_step(st, s, rsplit_pattern_found(s, p, i), cnt, allow_copying, i)

\* `for i in 0..string.len()`
RECURSIVE split_scan(_, _, _, _, _, _, _)
split_scan(st, s, p, cnt, allow_copying, lo, hi) ==
  Eager(st,
    IF lo > hi THEN st
    ELSE IF lo = hi THEN split_step(st, s, p, cnt, allow_copying, lo)
    ELSE LET mid == (lo + hi) \div 2 IN
         split_scan(split_scan(st, s, p, cnt, allow_copying, lo, mid),
                    s, p, cnt, allow_copying, mid + 1, hi))

\* `for i in (0..string.len()).rev()`
RECURSIVE rsplit_scan(_, _, _, _, _, _, _)
rsplit_scan(st, s, p, cnt, allow_copying, lo, hi) ==
  Eager(st,
    IF lo > hi THEN st
    ELSE IF lo = hi THEN rsplit_step(st, s, p, cnt, allow_copying, lo)
    ELSE LET mid == (lo + hi) \div 2 IN
         rsplit_scan(rsplit_scan(st, s, p, cnt, allow_copying, mid + 1, hi),
                     s, p, cnt, allow_copying, lo, mid))

\* the is_some(n) edge-case flag: nothing is copied when n = 0
allow_copying_flag(cnt) == IF cnt # NoCount THEN ne(cnt, zero) ELSE zero

\* _split with an empty pattern and a count: the first buffer is skipped
first_buffer(s, p, cnt) ==
  IF Len(p) = 0 /\ cnt # NoCount
    THEN if_then_else(bitand(gt(cnt, one), le(cnt, len(s))), 1, zero)
    ELSE zero

scan_init(s, first) ==
  [result |-> [J \in 1..Len(s) |-> Zeros(Len(s))],
   current_copy_buffer |-> first,
   stop_counter_increment |-> zero,
   global_pattern_found |-> one]

\* bounded variants: the delimiter is erased from every buffer before the
\* (n-1)th; stop_replacing_pattern is or-accumulated over the buffers
RECURSIVE stop_replacing_pattern(_, _)
stop_replacing_pattern(cnt, i) ==
  IF i < 0 THEN zero
  ELSE bitor(stop_replacing_pattern(cnt, i - 1), eq(cnt, add(as_u8(i), one)))

finalize_bounded(result, p, cnt) ==
  [J \in 1..Len(result) |->
    LET current_string == bubble_zeroes_left(result[J])
        replacement_string == replace(current_string, p, Zeros(Len(p)))
        stop == stop_replacing_pattern(cnt, J - 1)
    IN [K \in 1..Len(result[J]) |->
          if_then_else(stop, current_string[K], replacement_string[K])]]

\* unbounded variants: delimiter erasure, or compaction when inclusive
erase_pattern(result, p, is_inclusive) ==
  [J \in 1..Len(result) |->
    IF ~is_inclusive THEN replace(result[J], p, Zeros(Len(p)))
    ELSE bubble_zeroes_left(result[J])]

\* is_buff_zero of buffer J: its first max_buffer_size bytes are all zero
RECURSIVE is_buff_zero(_, _)
is_buff_zero(buf, k) ==
  IF k = 0 THEN one ELSE bitand(is_buff_zero(buf, k - 1), eq(buf[k], zero))

\* non_zero_buffer_found before buffer J is visited (buffers visited from
\* the last one down)
RECURSIVE non_zero_buffer_found(_, _, _)
non_zero_buffer_found(result, size, J) ==
  IF J >= Len(result) THEN zero
  ELSE bitor(non_zero_buffer_found(result, size, J + 1),
             flip(is_buff_zero(result[J + 1], size)))

\* terminator_pass that zeroes the last populated buffer, whatever it holds
terminator_pass_last_populated(result, p, size) ==
  [J \in 1..Len(result) |->
    LET should_delete ==
          bitand(flip(is_buff_zero(result[J], size)),
                 flip(non_zero_buffer_found(result, size, J)))
    IN [K \in 1..Len(result[J]) |->
          IF K <= size THEN if_then_else(should_delete, zero, result[J][K])
          ELSE result[J][K]]]

\* `Zero out the last populated buffer if it starts with the pattern`
terminator_pass(result, p, size) ==
  [J \in 1..Len(result) |->
    LET should_delete ==
          bitand(bitand(starts_with(result[J], p), is_buff_zero(result[J], size)),
                 flip(non_zero_buffer_found(result, size, J)))
    IN [K \in 1..Len(result[J]) |->
          IF K <= size THEN if_then_else(should_delete, zero, result[J][K])
          ELSE result[J][K]]]

finalize(result, p, is_inclusive, is_terminator, cnt, size) ==
  IF cnt # NoCount THEN finalize_bounded(result, p, cnt)
  ELSE LET erased == erase_pattern(result, p, is_inclusive)
       IN IF is_terminator THEN terminator_pass(erased, p, size) ELSE erased

_split(s, p, is_inclusive, is_terminator, cnt) ==
  LET st == split_scan(scan_init(s, first_buffer(s, p, cnt)), s, p, cnt,
                       allow_copying_flag(cnt), 0, Len(s) - 1)
  IN [buffers |-> finalize(st.result, p, is_inclusive, is_terminator, cnt, Len(s)),
      pattern_found |-> st.global_pattern_found]

_rsplit(s, p, is_inclusive, is_terminator, cnt) ==
  LET st == rsplit_scan(scan_init(s, zero), s, p, cnt,
                        allow_copying_flag(cnt), 0, Len(s) - 1)
  IN [buffers |-> finalize(st.result, p, is_inclusive, is_terminator, cnt, Len(s)),
      pattern_found |-> st.global_pattern_found]

split(s, p) == _split(s, p, FALSE, FALSE, NoCount)

splitn(s, p, cnt) == _split(s, p, FALSE, FALSE, cnt)

rsplit(s, p) == _rsplit(s, p, FALSE, FALSE, NoCount)

rsplitn(s, p, cnt) == _rsplit(s, p, FALSE, FALSE, cnt)

rsplit_once(s, p) == _rsplit(s, p, FALSE, FALSE, 2)

split_inclusive(s, p) == _split(s, p, TRUE, FALSE, NoCount)

split_terminator(s, p) == _split(s, p, FALSE, TRUE, NoCount)

rsplit_terminator(s, p) == _rsplit(s, p, FALSE, TRUE, NoCount)

(***************************************************************************)
(* split_ascii_whitespace                                                  *)
(***************************************************************************)
\* FheAsciiChar::is_whitespace: space, tab, newline, vertical tab, form feed,
\* carriage return
is_whitespace(b) ==
  bitor(bitor(bitor(eq(b, 32), eq(b, 9)), bitor(eq(b, 10), eq(b, 11))),
        bitor(eq(b, 12), eq(b, 13)))

\* one position of the scan: the buffer index moves on the first whitespace
\* byte after a non-whitespace byte, then the byte is copied unless it is
\* whitespace
whitespace_step(st, s, i) ==
  LET pattern_found == is_whitespace(s[i + 1])
      should_increment_buffer ==
        bitand(pattern_found, flip(st.previous_was_whitespace))
      cur == if_then_else(should_increment_buffer,
                          add(st.current_copy_buffer, one),
                          st.current_copy_buffer)
  IN [result |->
        [J \in 1..Len(st.result) |->
          LET copy_flag == bitand(eq(as_u8(J - 1), cur),
                                  flip(is_whitespace(s[i + 1])))
          IN [K \in 1..Len(st.result[J]) |->
                IF K = i + 1
                  THEN if_then_else(copy_flag, s[i + 1], st.result[J][K])
                  ELSE st.result[J][K]]],
      current_copy_buffer |-> cur,
      previous_was_whitespace |-> pattern_found,
      global_pattern_found |-> bitand(st.global_pattern_found, pattern_found)]

RECURSIVE whitespace_scan(_, _, _, _)
whitespace_scan(st, s, lo, hi) ==
  Eager(st,
    IF lo > hi THEN st
    ELSE IF lo = hi THEN whitespace_step(st, s, lo)
    ELSE LET mid == (lo + hi) \div 2 IN
         whitespace_scan(whitespace_scan(st, s, lo, mid), s, mid + 1, hi))

\* `Replace whitespace with \0`, then every buffer is compacted
zero_whitespace(buf) ==
  [K \in 1..Len(buf) |-> if_then_else(is_whitespace(buf[K]), zero, buf[K])]

split_ascii_whitespace(s) ==
  LET st == whitespace_scan(
              [result |-> [J \in 1..Len(s) |-> Zeros(Len(s))],
               current_copy_buffer |-> zero,
               previous_was_whitespace |-> one,
               global_pattern_found |-> one], s, 0, Len(s) - 1)
  IN [buffers |-> [J \in 1..Len(s) |->
                     bubble_zeroes_left(zero_whitespace(st.result[J]))],
      pattern_found |-> st.global_pattern_found]

(***************************************************************************)
(* Inputs.                                                                 *)
(***************************************************************************)
SeqsUpTo(S, k) == UNION {[1..m -> S] : m \in 0..k}

\* real bytes followed by padding zeros
Haystacks == {c \o Zeros(k) : c \in SeqsUpTo(Letters, MaxLen), k \in 0..MaxPad}

Patterns == SeqsUpTo(Letters, MaxPat)

\* a haystack of capacity c: letters 'a' with one 'b' k bytes before the end
LongString(c, k) == [i \in 1..c |-> IF i = c - k THEN 98 ELSE 97]

LongHaystacks ==
  {LongString(c, k) : c \in (MAX_FIND_LENGTH - CapSpan)..(MAX_FIND_LENGTH + CapSpan),
                      k \in 0..CapSpan}

(***************************************************************************)
(* The calls of the pattern primitives: one action per primitive.          *)
(***************************************************************************)
InitSearch ==
  /\ string \in Haystacks \cup LongHaystacks
  /\ pattern \in Patterns
  /\ to = << >>
  /\ other = << >>
  /\ n = 0
  /\ op = "none"
  /\ pc = "start"
  /\ ret = 0
  /\ out = << >>
  /\ buffers = << >>
  /\ evals = 0
  /\ scan = << >>
  /\ position = 0
  /\ conditions = {}

Contains ==
  /\ pc = "start"
  /\ op' = "contains"
  /\ ret' = contains(string, pattern)
  /\ pc' = "done"
  /\ UNCHANGED << scan, position, conditions >>
  /\ UNCHANGED << string, pattern, other, to, n, out, buffers, evals >>

Find ==
  /\ pc = "start"
  /\ op' = "find"
  /\ IF find_panics(string, pattern)
       THEN pc' = "panic" /\ UNCHANGED << ret, evals >>
       ELSE /\ pc' = "done"
            /\ ret' = find(string, pattern)
            /\ evals' = find_evals(string, pattern)
  /\ UNCHANGED << scan, position, conditions >>
  /\ UNCHANGED << string, pattern, other, to, n, out, buffers >>

RFind ==
  /\ pc = "start"
  /\ op' = "rfind"
  /\ IF rfind_panics(string, pattern)
       THEN pc' = "panic" /\ UNCHANGED << ret, evals >>
       ELSE /\ pc' = "done"
            /\ ret' = rfind(string, pattern)
            /\ evals' = rfind_evals(string, pattern)
  /\ UNCHANGED << scan, position, conditions >>
  /\ UNCHANGED << string, pattern, other, to, n, out, buffers >>

NextSearch == Contains \/ Find \/ RFind

SpecSearch == InitSearch /\ [][NextSearch]_vars

(***************************************************************************)
(* Plaintext reference: the str methods the engine mirrors.                *)
(***************************************************************************)
\* the plaintext a haystack stands for
Content(s) == NonZero(s)

\* offsets at which p occurs in the plaintext s
Offsets(s, p) ==
  {i \in 0..(Len(s) - Len(p)) : \A j \in 1..Len(p) : s[i + j] = p[j]}

Min(S) == CHOOSE x \in S : \A y \in S : x <= y

Max(S) == CHOOSE x \in S : \A y \in S : x >= y

Bool01(b) == IF b THEN 1 ELSE 0

(***************************************************************************)
(* Claims about the pattern primitives.                                    *)
(***************************************************************************)
\* C1: contains(s, p) is 1 if p occurs in the plaintext of s and 0 otherwise;
\* an empty p gives 1 (also for an empty s), a p longer than the capacity 0.
C1_Contains ==
  (op = "contains" /\ pc = "done") =>
    /\ ret = Bool01(Offsets(Content(string), pattern) # {})
    /\ (pattern = << >> => ret = 1)
    /\ (Len(pattern) > Len(string) => ret = 0)

C1_Witness ==
  /\ op = "contains" /\ pc = "done" /\ ret = 1
  /\ Len(pattern) = MaxPat
  /\ Len(Content(string)) < Len(string)
  /\ 0 \notin Offsets(Content(string), pattern)

\* C2: find(s, p), when it does not panic, is the smallest offset of p in s,
\* and 255 exactly when p does not occur; an offset is never 255; empty p: 0.
C2_Find ==
  (op = "find" /\ pc = "done") =>
    LET offs == Offsets(Content(string), pattern) IN
    /\ offs # {} => (ret = Min(offs) /\ Min(offs) < MAX_FIND_LENGTH)
    /\ offs = {} <=> ret = MAX_FIND_LENGTH
    /\ (pattern = << >> => ret = 0)

C2_Witness ==
  /\ op = "find" /\ pc = "done"
  /\ ret = MAX_FIND_LENGTH - 1
  /\ Len(pattern) = 1

\* C3: rfind(s, p), when it does not panic, is the largest offset of a
\* non-empty p in s, 255 when p does not occur, and for an empty p the
\* number of real bytes of s.
C3_RFind ==
  (op = "rfind" /\ pc = "done") =>
    LET offs == Offsets(Content(string), pattern) IN
    IF pattern = << >> THEN ret = Len(Content(string))
    ELSE IF offs = {} THEN ret = MAX_FIND_LENGTH
    ELSE ret = Max(offs)

C3_Witness ==
  /\ op = "rfind" /\ pc = "done"
  /\ pattern # << >>
  /\ Cardinality(Offsets(Content(string), pattern)) >= 2
  /\ ret = Max(Offsets(Content(string), pattern))
  /\ Len(Content(string)) < Len(string)

Replacements == SeqsUpTo(Letters, MaxTo)

InitReplace ==
  /\ string \in Haystacks
  /\ pattern \in Patterns
  /\ to \in Replacements
  /\ other = << >>
  /\ n \in 0..MaxN
  /\ op = "none"
  /\ pc = "start"
  /\ ret = 0
  /\ out = << >>
  /\ buffers = << >>
  /\ evals = 0
  /\ scan = << >>
  /\ position = 0
  /\ conditions = {}

Replace ==
  /\ pc = "start"
  /\ op' = "replace"
  /\ out' = replace(string, pattern, to)
  /\ pc' = "done"
  /\ UNCHANGED << scan, position, conditions >>
  /\ UNCHANGED << string, pattern, other, to, n, ret, buffers, evals >>

ReplaceN ==
  /\ pc = "start"
  /\ op' = "replacen"
  /\ out' = replacen(string, pattern, to, n)
  /\ pc' = "done"
  /\ UNCHANGED << scan, position, conditions >>
  /\ UNCHANGED << string, pattern, other, to, n, ret, buffers, evals >>

NextReplace == Replace \/ ReplaceN

SpecReplace == InitReplace /\ [][NextReplace]_vars

(***************************************************************************)
(* Plaintext reference: str::replace and str::replacen.                    *)
(***************************************************************************)
Suffix(s, i) == SubSeq(s, i + 1, Len(s))

\* s from offset i on, with at most cnt occurrences of from replaced by t,
\* scanning left to right over non-overlapping occurrences
RECURSIVE PlainReplaceFrom(_, _, _, _, _)
PlainReplaceFrom(s, from, t, cnt, i) ==
  IF cnt = 0 THEN Suffix(s, i)
  ELSE IF from = << >>
    THEN IF i >= Len(s) THEN t
         ELSE t \o << s[i + 1] >> \o PlainReplaceFrom(s, from, t, cnt - 1, i + 1)
  ELSE IF i + Len(from) > Len(s) THEN Suffix(s, i)
  ELSE IF SubSeq(s, i + 1, i + Len(from)) = from
    THEN t \o PlainReplaceFrom(s, from, t, cnt - 1, i + Len(from))
  ELSE << s[i + 1] >> \o PlainReplaceFrom(s, from, t, cnt, i + 1)

PlainReplaceN(s, from, t, cnt) == PlainReplaceFrom(s, from, t, cnt, 0)

PlainReplace(s, from, t) == PlainReplaceFrom(s, from, t, Len(s) + 1, 0)

(***************************************************************************)
(* Claims about replace and replacen.                                      *)
(***************************************************************************)
\* C5: on the path from.len() >= to.len() the content of replace(s, from, to)
\* is the plaintext s.replace(from, to); a from longer than the haystack
\* leaves the content unchanged.
C5_ReplaceLongerFrom ==
  (op = "replace" /\ pc = "done" /\ Len(pattern) >= Len(to)) =>
    /\ Content(out) = PlainReplace(Content(string), pattern, to)
    /\ (Len(pattern) > Len(string) => Content(out) = Content(string))

\* C6: on the path from.len() < to.len(), an empty from included, the
\* content of replace(s, from, to) is the plaintext s.replace(from, to).
C6_ReplaceShorterFrom ==
  (op = "replace" /\ pc = "done" /\ Len(pattern) < Len(to)) =>
    Content(out) = PlainReplace(Content(string), pattern, to)

\* C7: the content of replacen(s, from, to, n) is the plaintext
\* s.replacen(from, to, n), on both paths; n = 0 returns s unchanged.
C7_ReplaceN ==
  (op = "replacen" /\ pc = "done") =>
    /\ Content(out) = PlainReplaceN(Content(string), pattern, to, n)
    /\ (n = 0 => Content(out) = Content(string))

(***************************************************************************)
(* The split operations on bounded inputs.                                 *)
(***************************************************************************)
\* a run of one letter, one byte longer than the other haystacks: the
\* occurrences of a two-byte delimiter overlap in it
Runs == {[i \in 1..(MaxLen + 1) |-> 97] \o Zeros(k) : k \in 0..MaxPad}

InitSplit ==
  /\ string \in Haystacks \cup Runs
  /\ pattern \in Patterns
  /\ to = << >>
  /\ other = << >>
  /\ n \in 0..MaxN
  /\ op = "none"
  /\ pc = "start"
  /\ ret = 0
  /\ out = << >>
  /\ buffers = << >>
  /\ evals = 0
  /\ scan = << >>
  /\ position = 0
  /\ conditions = {}

Split ==
  /\ pc = "start"
  /\ op' = "split"
  /\ LET r == split(string, pattern)
     IN buffers' = r.buffers /\ ret' = r.pattern_found
  /\ pc' = "done"
  /\ UNCHANGED << scan, position, conditions >>
  /\ UNCHANGED << string, pattern, other, to, n, out, evals >>

RSplit ==
  /\ pc = "start"
  /\ op' = "rsplit"
  /\ LET r == rsplit(string, pattern)
     IN buffers' = r.buffers /\ ret' = r.pattern_found
  /\ pc' = "done"
  /\ UNCHANGED << scan, position, conditions >>
  /\ UNCHANGED << string, pattern, other, to, n, out, evals >>

SplitN ==
  /\ pc = "start"
  /\ op' = "splitn"
  /\ LET r == splitn(string, pattern, n)
     IN buffers' = r.buffers /\ ret' = r.pattern_found
  /\ pc' = "done"
  /\ UNCHANGED << scan, position, conditions >>
  /\ UNCHANGED << string, pattern, other, to, n, out, evals >>

RSplitN ==
  /\ pc = "start"
  /\ op' = "rsplitn"
  /\ LET r == rsplitn(string, pattern, n)
     IN buffers' = r.buffers /\ ret' = r.pattern_found
  /\ pc' = "done"
  /\ UNCHANGED << scan, position, conditions >>
  /\ UNCHANGED << string, pattern, other, to, n, out, evals >>

RSplitOnce ==
  /\ pc = "start"
  /\ op' = "rsplit_once"
  /\ LET r == rsplit_once(string, pattern)
     IN buffers' = r.buffers /\ ret' = r.pattern_found
  /\ pc' = "done"
  /\ UNCHANGED << scan, position, conditions >>
  /\ UNCHANGED << string, pattern, other, to, n, out, evals >>

SplitInclusive ==
  /\ pc = "start"
  /\ op' = "split_inclusive"
  /\ LET r == split_inclusive(string, pattern)
     IN buffers' = r.buffers /\ ret' = r.pattern_found
  /\ pc' = "done"
  /\ UNCHANGED << scan, position, conditions >>
  /\ UNCHANGED << string, pattern, other, to, n, out, evals >>

SplitTerminator ==
  /\ pc = "start"
  /\ op' = "split_terminator"
  /\ LET r == split_terminator(string, pattern)
     IN buffers' = r.buffers /\ ret' = r.pattern_found
  /\ pc' = "done"
  /\ UNCHANGED << scan, position, conditions >>
  /\ UNCHANGED << string, pattern, other, to, n, out, evals >>

RSplitTerminator ==
  /\ pc = "start"
  /\ op' = "rsplit_terminator"
  /\ LET r == rsplit_terminator(string, pattern)
     IN buffers' = r.buffers /\ ret' = r.pattern_found
  /\ pc' = "done"
  /\ UNCHANGED << scan, position, conditions >>
  /\ UNCHANGED << string, pattern, other, to, n, out, evals >>

NextSplit == Split \/ RSplit \/ SplitN \/ RSplitN \/ RSplitOnce \/ SplitInclusive \/ SplitTerminator \/ RSplitTerminator

SpecSplit == InitSplit /\ [][NextSplit]_vars

(***************************************************************************)
(* Plaintext reference: str::split, str::rsplit, str::splitn.              *)
(***************************************************************************)
\* the first offset >= pos at which p occurs in s, or -1
FirstMatch(s, p, pos) ==
  LET ms == {m \in Offsets(s, p) : m >= pos}
  IN IF ms = {} THEN -1 ELSE Min(ms)

\* at most cnt segments of s: the segment starts at offset start, the search
\* for the next delimiter resumes at offset pos
RECURSIVE PlainSegments(_, _, _, _, _)
PlainSegments(s, p, cnt, start, pos) ==
  IF cnt = 0 THEN << >>
  ELSE IF cnt = 1 THEN << Suffix(s, start) >>
  ELSE LET m == FirstMatch(s, p, pos)
       IN IF m < 0 THEN << Suffix(s, start) >>
          ELSE << SubSeq(s, start + 1, m) >> \o
               PlainSegments(s, p, cnt - 1, m + Len(p),
                             IF p = << >> THEN m + 1 ELSE m + Len(p))

PlainSplitN(s, p, cnt) == PlainSegments(s, p, cnt, 0, 0)

PlainSplit(s, p) == PlainSplitN(s, p, Len(s) + 2)

Reverse(s) == [i \in 1..Len(s) |-> s[Len(s) + 1 - i]]

PlainRSplit(s, p) ==
  LET segs == PlainSplit(Reverse(s), Reverse(p))
  IN [i \in 1..Len(segs) |-> Reverse(segs[i])]

\* trailing empty segments dropped
RECURSIVE TrimTrailingEmpty(_)
TrimTrailingEmpty(segs) ==
  IF segs = << >> THEN << >>
  ELSE IF segs[Len(segs)] = << >>
    THEN TrimTrailingEmpty(SubSeq(segs, 1, Len(segs) - 1))
  ELSE segs

\* the returned buffers, each read as its non-zero bytes
Segments(bufs) == TrimTrailingEmpty([i \in 1..Len(bufs) |-> Content(bufs[i])])

\* C8: the buffers of split(s, p), read as their non-zero bytes and with
\* trailing empty buffers dropped, are the segments of the plaintext
\* s.split(p) with trailing empty segments dropped.
C8_Split ==
  (pc = "done" /\ op = "split") =>
    Segments(buffers) = TrimTrailingEmpty(PlainSplit(Content(string), pattern))

\* C9: the buffers of rsplit(s, p), read as their non-zero bytes and with
\* trailing empty buffers dropped, are the segments of the plaintext
\* s.rsplit(p), from right to left, with trailing empty segments dropped.
C9_RSplit ==
  (pc = "done" /\ op = "rsplit") =>
    Segments(buffers) = TrimTrailingEmpty(PlainRSplit(Content(string), pattern))

\* C10: the buffers of splitn(s, p, n), with trailing empty buffers dropped,
\* are the segments of the plaintext s.splitn(n, p): at most n of them, the
\* last one the unsplit remainder, none when n = 0.
C10_SplitN ==
  (pc = "done" /\ op = "splitn") =>
    Segments(buffers) = TrimTrailingEmpty(PlainSplitN(Content(string), pattern, n))

(***************************************************************************)
(* rsplitn and rsplit_once.                                                *)
(***************************************************************************)
PlainRSplitN(s, p, cnt) ==
  LET segs == PlainSplitN(Reverse(s), Reverse(p), cnt)
  IN [i \in 1..Len(segs) |-> Reverse(segs[i])]

\* C11: the buffers of rsplitn(s, p, n), with trailing empty buffers
\* dropped, are the segments of the plaintext s.rsplitn(n, p), and those of
\* rsplit_once(s, p) are the segments of s.rsplitn(2, p): the text after and
\* the text before the last occurrence of p.
C11_RSplitN ==
  /\ (pc = "done" /\ op = "rsplitn") =>
       Segments(buffers) =
         TrimTrailingEmpty(PlainRSplitN(Content(string), pattern, n))
  /\ (pc = "done" /\ op = "rsplit_once") =>
       Segments(buffers) =
         TrimTrailingEmpty(PlainRSplitN(Content(string), pattern, 2))

(***************************************************************************)
(* split_inclusive.                                                        *)
(***************************************************************************)
\* the segments of s.split_inclusive(p): every delimiter stays at the end of
\* its segment and an empty remainder is not a segment
RECURSIVE PlainInclusiveSegments(_, _, _, _)
PlainInclusiveSegments(s, p, start, pos) ==
  LET m == FirstMatch(s, p, pos)
  IN IF m < 0
       THEN IF start < Len(s) THEN << Suffix(s, start) >> ELSE << >>
       ELSE << SubSeq(s, start + 1, m + Len(p)) >> \o
            PlainInclusiveSegments(s, p, m + Len(p),
                                   IF p = << >> THEN m + 1 ELSE m + Len(p))

PlainSplitInclusive(s, p) == PlainInclusiveSegments(s, p, 0, 0)

RECURSIVE Concat(_)
Concat(segs) ==
  IF segs = << >> THEN << >> ELSE Head(segs) \o Concat(Tail(segs))

\* C12: the buffers of split_inclusive(s, p), read as their non-zero bytes and
\* with trailing empty buffers dropped, are the segments of the plaintext
\* s.split_inclusive(p), and concatenated in order they give s.
C12_SplitInclusive ==
  (pc = "done" /\ op = "split_inclusive") =>
    /\ Segments(buffers) =
         TrimTrailingEmpty(PlainSplitInclusive(Content(string), pattern))
    /\ Concat(Segments(buffers)) = Content(string)

(***************************************************************************)
(* split_terminator and rsplit_terminator.                                 *)
(***************************************************************************)
\* s.split(p) without its last segment when that segment is empty
PlainSplitTerminator(s, p) ==
  LET segs == PlainSplit(s, p)
  IN IF segs[Len(segs)] = << >> THEN SubSeq(segs, 1, Len(segs) - 1) ELSE segs

\* s.rsplit(p) without its first segment when that segment is empty
PlainRSplitTerminator(s, p) ==
  LET segs == PlainRSplit(s, p)
  IN IF segs[1] = << >> THEN Tail(segs) ELSE segs

\* C13 (split_terminator): for a non-empty pattern the buffers of
\* split_terminator(s, p), with trailing empty buffers dropped, are the
\* segments of the plaintext s.split_terminator(p).
C13_SplitTerminator ==
  (pc = "done" /\ op = "split_terminator" /\ pattern # << >>) =>
    Segments(buffers) =
      TrimTrailingEmpty(PlainSplitTerminator(Content(string), pattern))

\* C13: for a non-empty pattern the buffers of split_terminator(s, p) and of
\* rsplit_terminator(s, p), with trailing empty buffers dropped, are the
\* segments of the plaintext s.split_terminator(p) and s.rsplit_terminator(p);
\* the empty segment next to a trailing delimiter is not part of the output.
C13_Terminator ==
  /\ C13_SplitTerminator
  /\ (pc = "done" /\ op = "rsplit_terminator" /\ pattern # << >>) =>
       Segments(buffers) =
         TrimTrailingEmpty(PlainRSplitTerminator(Content(string), pattern))

(***************************************************************************)
(* split_ascii_whitespace on bounded inputs.                               *)
(***************************************************************************)
\* a letter, the space, the newline and the vertical tab
WhitespaceLetters == {97, 32, 10, 11}

InitWhitespace ==
  /\ string \in {c \o Zeros(k) : c \in SeqsUpTo(WhitespaceLetters, MaxLen),
                                 k \in 0..MaxPad}
  /\ pattern = << >>
  /\ to = << >>
  /\ other = << >>
  /\ n = 0
  /\ op = "none"
  /\ pc = "start"
  /\ ret = 0
  /\ out = << >>
  /\ buffers = << >>
  /\ evals = 0
  /\ scan = << >>
  /\ position = 0
  /\ conditions = {}

SplitAsciiWhitespace ==
  /\ pc = "start"
  /\ op' = "split_ascii_whitespace"
  /\ LET r == split_ascii_whitespace(string)
     IN buffers' = r.buffers /\ ret' = r.pattern_found
  /\ pc' = "done"
  /\ UNCHANGED << scan, position, conditions >>
  /\ UNCHANGED << string, pattern, other, to, n, out, evals >>

NextWhitespace == SplitAsciiWhitespace

SpecWhitespace == InitWhitespace /\ [][NextWhitespace]_vars

\* u8::is_ascii_whitespace: space, tab, newline, form feed, carriage return
IsAsciiWhitespace(b) == b \in {32, 9, 10, 12, 13}

\* the maximal runs of non-whitespace bytes of s from offset i on; cur is the
\* run read so far
RECURSIVE PlainWords(_, _, _)
PlainWords(s, i, cur) ==
  IF i >= Len(s) THEN (IF cur = << >> THEN << >> ELSE << cur >>)
  ELSE IF IsAsciiWhitespace(s[i + 1])
    THEN (IF cur = << >> THEN << >> ELSE << cur >>) \o PlainWords(s, i + 1, << >>)
  ELSE PlainWords(s, i + 1, Append(cur, s[i + 1]))

PlainSplitAsciiWhitespace(s) == PlainWords(s, 0, << >>)

\* C14: the buffers of split_ascii_whitespace(s), read as their non-zero
\* bytes and with trailing empty buffers dropped, are the segments of the
\* plaintext s.split_ascii_whitespace().
C14_SplitAsciiWhitespace ==
  (pc = "done" /\ op = "split_ascii_whitespace") =>
    Segments(buffers) = PlainSplitAsciiWhitespace(Content(string))

(***************************************************************************)
(* strip_prefix, strip_suffix, ends_with                                   *)
(***************************************************************************)
\* the prefix bytes are zeroed when the flag is set
mask_prefix(s, p, flag) ==
  [K \in 1..Len(s) |->
    IF K <= Len(p) THEN if_then_else(flag, zero, s[K]) ELSE s[K]]

\* strip_prefix with the comparison of the last pattern byte left out
strip_prefix_short_compare(s, p) ==
  IF Len(p) > Len(s) THEN [string |-> s, flag |-> zero]
  ELSE LET flag == window_flag(s, p, 0, Max({Len(p) - 1, 0}))
       IN [string |-> bubble_zeroes_right(mask_prefix(s, p, flag)),
           flag |-> flag]

strip_prefix(s, p) ==
  IF Len(p) > Len(s) THEN [string |-> s, flag |-> zero]
  ELSE LET flag == pattern_found_at(s, p, 0)
       IN [string |-> bubble_zeroes_right(mask_prefix(s, p, flag)),
           flag |-> flag]

\* are_all_comparison_chars_non_zero of the window of j bytes at offset i
RECURSIVE non_zero_window(_, _, _)
non_zero_window(s, i, j) ==
  IF j = 0 THEN one
  ELSE bitand(non_zero_window(s, i, j - 1), ne(s[i + j], zero))

\* strip_suffix, first loop: the offset of the last padding-free window when
\* it matches, 255 when it does not
RECURSIVE suffix_position_loop(_, _, _, _, _)
suffix_position_loop(s, needle, lo, hi, pattern_position) ==
  Eager(pattern_position,
    IF lo > hi THEN pattern_position
    ELSE IF lo = hi
      THEN LET current_result ==
                 if_then_else(pattern_found_at(s, needle, lo), as_u8(lo), 255)
           IN if_then_else(non_zero_window(s, lo, Len(needle)),
                           current_result, pattern_position)
    ELSE LET mid == (lo + hi) \div 2 IN
         suffix_position_loop(s, needle, mid + 1, hi,
           suffix_position_loop(s, needle, lo, mid, pattern_position)))

\* strip_suffix, second loop: byte K is zeroed by every window offset i that
\* covers it and whose 8-bit encoding equals pattern_position
mask_suffix(s, needle, pattern_position) ==
  [K \in 1..Len(s) |->
    IF \E i \in Max({0, K - Len(needle)})..Min({Len(s) - Len(needle), K - 1}) :
         eq(as_u8(i), pattern_position) = one
      THEN zero ELSE s[K]]

strip_suffix(s, needle) ==
  IF Len(s) < Len(needle) THEN [string |-> s, flag |-> zero]
  ELSE LET pattern_position ==
             suffix_position_loop(s, needle, 0, Len(s) - Len(needle), 255)
       IN [string |-> mask_suffix(s, needle, pattern_position),
           flag |-> ne(pattern_position, 255)]

\* ends_with: the result of the last padding-free window
RECURSIVE ends_with_loop(_, _, _, _, _)
ends_with_loop(s, needle, lo, hi, result) ==
  Eager(result,
    IF lo > hi THEN result
    ELSE IF lo = hi
      THEN if_then_else(non_zero_window(s, lo, Len(needle)),
                        pattern_found_at(s, needle, lo), result)
    ELSE LET mid == (lo + hi) \div 2 IN
         ends_with_loop(s, needle, mid + 1, hi,
           ends_with_loop(s, needle, lo, mid, result)))

\* ends_with that looks at the last window of the capacity only
ends_with_last_window(s, needle) ==
  IF Len(s) = 0 /\ Len(needle) = 0 THEN one
  ELSE IF Len(s) < Len(needle) THEN zero
  ELSE pattern_found_at(s, needle, Len(s) - Len(needle))

ends_with(s, needle) ==
  IF Len(s) = 0 /\ Len(needle) = 0 THEN one
  ELSE IF Len(s) < Len(needle) THEN zero
  ELSE ends_with_loop(s, needle, 0, Len(s) - Len(needle), zero)

(***************************************************************************)
(* The strip operations and ends_with on bounded inputs.                   *)
(***************************************************************************)
InitStrip ==
  /\ string \in Haystacks \cup LongHaystacks
  /\ pattern \in Patterns
  /\ to = << >>
  /\ other = << >>
  /\ n = 0
  /\ op = "none"
  /\ pc = "start"
  /\ ret = 0
  /\ out = << >>
  /\ buffers = << >>
  /\ evals = 0
  /\ scan = << >>
  /\ position = 0
  /\ conditions = {}

StripPrefix ==
  /\ pc = "start"
  /\ op' = "strip_prefix"
  /\ LET r == strip_prefix(string, pattern)
     IN out' = r.string /\ ret' = r.flag
  /\ pc' = "done"
  /\ UNCHANGED << scan, position, conditions >>
  /\ UNCHANGED << string, pattern, other, to, n, buffers, evals >>

StripSuffix ==
  /\ pc = "start"
  /\ op' = "strip_suffix"
  /\ LET r == strip_suffix(string, pattern)
     IN out' = r.string /\ ret' = r.flag
  /\ pc' = "done"
  /\ UNCHANGED << scan, position, conditions >>
  /\ UNCHANGED << string, pattern, other, to, n, buffers, evals >>

EndsWithOp ==
  /\ pc = "start"
  /\ op' = "ends_with"
  /\ ret' = ends_with(string, pattern)
  /\ pc' = "done"
  /\ UNCHANGED << scan, position, conditions >>
  /\ UNCHANGED << string, pattern, other, to, n, out, buffers, evals >>

NextStrip == StripPrefix \/ StripSuffix \/ EndsWithOp

SpecStrip == InitStrip /\ [][NextStrip]_vars

\* plaintext str::starts_with and str::ends_with
StartsWith(s, p) == Len(p) <= Len(s) /\ SubSeq(s, 1, Len(p)) = p

EndsWith(s, p) ==
  Len(p) <= Len(s) /\ SubSeq(s, Len(s) - Len(p) + 1, Len(s)) = p

\* C15: strip_prefix(s, p) returns flag 1 exactly when the plaintext s starts
\* with p; with flag 1 the returned content is s without that prefix, with
\* flag 0 the returned string is s unmodified.
C15_StripPrefix ==
  (pc = "done" /\ op = "strip_prefix") =>
    /\ ret = Bool01(StartsWith(Content(string), pattern))
    /\ ret = 1 => Content(out) = Suffix(Content(string), Len(pattern))
    /\ ret = 0 => out = string

\* a non-empty prefix has been stripped, and one has been kept
C15_Witness ==
  /\ pc = "done" /\ op = "strip_prefix"
  /\ pattern # << >> /\ ret = 1 /\ Content(out) # << >>
  /\ Len(string) > Len(Content(string))

\* s with the last k real bytes zeroed
ZeroLastReal(s, k) ==
  LET c == Len(Content(s))
  IN [K \in 1..Len(s) |-> IF c - k < K /\ K <= c THEN 0 ELSE s[K]]

\* C16: strip_suffix(s, p) returns flag 1 exactly when the plaintext s ends
\* with p; with flag 1 exactly the last p.len() real bytes are zeroed, with
\* flag 0 every byte of the returned string equals the input.
C16_StripSuffix ==
  (pc = "done" /\ op = "strip_suffix") =>
    /\ ret = Bool01(EndsWith(Content(string), pattern))
    /\ ret = 1 => out = ZeroLastReal(string, Len(pattern))
    /\ ret = 0 => out = string

\* C17: ends_with(s, p) is 1 exactly when the plaintext s ends with p,
\* whatever the trailing padding of s.
C17_EndsWith ==
  (pc = "done" /\ op = "ends_with") =>
    ret = Bool01(EndsWith(Content(string), pattern))

\* a padded string that ends with a non-empty pattern, and one that does not
C17_Witness ==
  /\ pc = "done" /\ op = "ends_with"
  /\ pattern # << >> /\ Len(string) > Len(Content(string))
  /\ ret = 1

(***************************************************************************)
(* comparison (lt, le, gt, ge) and eq of two strings                       *)
(***************************************************************************)
\* the per-byte relation of the requested operation
compare_chars(operation, a, b) ==
  CASE operation = "LessThan" -> lt(a, b)
    [] operation = "LessEqual" -> le(a, b)
    [] operation = "GreaterThan" -> gt(a, b)
    [] operation = "GreaterEqual" -> ge(a, b)

\* one position of the scan: ret takes the relation of the first position
\* where the bytes differ
comparison_step(st, s, o, operation, i) ==
  LET encountered == bitor(st.encountered_comparison, ne(s[i + 1], o[i + 1]))
      flag == bitand(encountered, flip(st.has_flag_became_one))
  IN [encountered_comparison |-> encountered,
      has_flag_became_one |-> bitor(st.has_flag_became_one, flag),
      ret |-> if_then_else(flag, compare_chars(operation, s[i + 1], o[i + 1]),
                           st.ret)]

RECURSIVE comparison_loop(_, _, _, _, _, _)
comparison_loop(st, s, o, operation, lo, hi) ==
  Eager(st,
    IF lo > hi THEN st
    ELSE IF lo = hi THEN comparison_step(st, s, o, operation, lo)
    ELSE LET mid == (lo + hi) \div 2 IN
         comparison_loop(comparison_loop(st, s, o, operation, lo, mid),
                         s, o, operation, mid + 1, hi))

length_based_comparison(operation, len1, len2) ==
  CASE operation = "GreaterEqual" -> bitor(eq(len1, len2), gt(len1, len2))
    [] operation = "LessEqual" -> bitor(eq(len1, len2), lt(len1, len2))
    [] operation = "GreaterThan" -> gt(len1, len2)
    [] operation = "LessThan" -> lt(len1, len2)

comparison(s0, o0, operation) ==
  LET min0 == Min({Len(s0), Len(o0)})
      s == IF min0 = 0 THEN push(s0, zero) ELSE s0
      o == IF min0 = 0 THEN push(o0, zero) ELSE o0
      st == comparison_loop([encountered_comparison |-> zero,
                             has_flag_became_one |-> zero, ret |-> 255],
                            s, o, operation, 0, Max({min0, 1}) - 1)
  IN if_then_else(eq(st.ret, 255),
                  length_based_comparison(operation, len(s), len(o)), st.ret)

str_lt(s, o) == comparison(s, o, "LessThan")

str_le(s, o) == comparison(s, o, "LessEqual")

str_gt(s, o) == comparison(s, o, "GreaterThan")

str_ge(s, o) == comparison(s, o, "GreaterEqual")

\* eq: the bytes of the common capacity agree, and so do the real lengths
RECURSIVE eq_loop(_, _, _, _, _)
eq_loop(s, o, lo, hi, is_eq) ==
  Eager(is_eq,
    IF lo > hi THEN is_eq
    ELSE IF lo = hi
      THEN bitand(is_eq, bitor(bitand(eq(s[lo + 1], zero), eq(o[lo + 1], zero)),
                               eq(s[lo + 1], o[lo + 1])))
    ELSE LET mid == (lo + hi) \div 2 IN
         eq_loop(s, o, mid + 1, hi, eq_loop(s, o, lo, mid, is_eq)))

str_eq(s, o) ==
  if_then_else(ne(len(s), len(o)), zero,
               eq_loop(s, o, 0, Min({Len(s), Len(o)}) - 1, one))

(***************************************************************************)
(* The comparisons on bounded inputs.                                      *)
(***************************************************************************)
\* strings of more than 255 real bytes: their length does not fit a byte
Wraps == {[i \in 1..(ByteMod + k) |-> 97] : k \in 1..MaxLen}

InitCompare ==
  /\ string \in Haystacks \cup Wraps
  /\ pattern = << >>
  /\ to = << >>
  /\ other \in Haystacks \cup Wraps
  /\ n = 0
  /\ op = "none"
  /\ pc = "start"
  /\ ret = 0
  /\ out = << >>
  /\ buffers = << >>
  /\ evals = 0
  /\ scan = << >>
  /\ position = 0
  /\ conditions = {}

Lt ==
  /\ pc = "start"
  /\ op' = "lt"
  /\ ret' = str_lt(string, other)
  /\ pc' = "done"
  /\ UNCHANGED << scan, position, conditions >>
  /\ UNCHANGED << string, pattern, other, to, n, out, buffers, evals >>

Le ==
  /\ pc = "start"
  /\ op' = "le"
  /\ ret' = str_le(string, other)
  /\ pc' = "done"
  /\ UNCHANGED << scan, position, conditions >>
  /\ UNCHANGED << string, pattern, other, to, n, out, buffers, evals >>

Gt ==
  /\ pc = "start"
  /\ op' = "gt"
  /\ ret' = str_gt(string, other)
  /\ pc' = "done"
  /\ UNCHANGED << scan, position, conditions >>
  /\ UNCHANGED << string, pattern, other, to, n, out, buffers, evals >>

Ge ==
  /\ pc = "start"
  /\ op' = "ge"
  /\ ret' = str_ge(string, other)
  /\ pc' = "done"
  /\ UNCHANGED << scan, position, conditions >>
  /\ UNCHANGED << string, pattern, other, to, n, out, buffers, evals >>

Eq ==
  /\ pc = "start"
  /\ op' = "eq"
  /\ ret' = str_eq(string, other)
  /\ pc' = "done"
  /\ UNCHANGED << scan, position, conditions >>
  /\ UNCHANGED << string, pattern, other, to, n, out, buffers, evals >>

NextCompare == Lt \/ Le \/ Gt \/ Ge \/ Eq

SpecCompare == InitCompare /\ [][NextCompare]_vars

\* plaintext byte-wise lexicographic order: a < b
LexLess(a, b) ==
  \E i \in 1..Len(b) :
    /\ i - 1 <= Len(a)
    /\ \A j \in 1..(i - 1) : a[j] = b[j]
    /\ (i = Len(a) + 1 \/ a[i] < b[i])

\* C18: lt, le, gt and ge decrypt to the plaintext lexicographic relations
\* of the real contents, whatever the padding of either string.
C18_Comparison ==
  LET a == Content(string)
      b == Content(other)
  IN pc = "done" =>
       /\ op = "lt" => ret = Bool01(LexLess(a, b))
       /\ op = "le" => ret = Bool01(LexLess(a, b) \/ a = b)
       /\ op = "gt" => ret = Bool01(LexLess(b, a))
       /\ op = "ge" => ret = Bool01(LexLess(b, a) \/ a = b)

\* C19: eq(a, b) is 1 exactly when the real contents of a and b are
\* identical, whatever the padding of either string.
C19_Eq ==
  (pc = "done" /\ op = "eq") => ret = Bool01(Content(string) = Content(other))

(***************************************************************************)
(* to_upper, to_lower                                                      *)
(***************************************************************************)
is_uppercase(b) == bitand(ge(b, 65), le(b, 90))

is_lowercase(b) == bitand(ge(b, 97), le(b, 122))

\* FheString::get_cst: the case-shift constant
cst == 32

\* to_upper that tests the lower end of the range only
to_upper_open_range(s) ==
  [K \in 1..Len(s) |->
    sub(s[K], if_then_else(flip(ge(s[K], 97)), zero, cst))]

to_upper(s) ==
  [K \in 1..Len(s) |->
    sub(s[K], if_then_else(flip(is_lowercase(s[K])), zero, cst))]

to_lower(s) ==
  [K \in 1..Len(s) |->
    add(s[K], if_then_else(flip(is_uppercase(s[K])), zero, cst))]

(***************************************************************************)
(* The case conversions on bounded inputs.                                 *)
(***************************************************************************)
\* the bytes on either side of both ends of 'A'..'Z' and 'a'..'z'
CaseLetters == {64, 65, 90, 91, 96, 97, 122, 123}

InitCase ==
  /\ string \in {c \o Zeros(k) : c \in SeqsUpTo(CaseLetters, MaxLen),
                                 k \in 0..MaxPad}
  /\ pattern = << >>
  /\ to = << >>
  /\ other = << >>
  /\ n = 0
  /\ op = "none"
  /\ pc = "start"
  /\ ret = 0
  /\ out = << >>
  /\ buffers = << >>
  /\ evals = 0
  /\ scan = << >>
  /\ position = 0
  /\ conditions = {}

ToUpper ==
  /\ pc = "start"
  /\ op' = "to_upper"
  /\ out' = to_upper(string)
  /\ pc' = "done"
  /\ UNCHANGED << scan, position, conditions >>
  /\ UNCHANGED << string, pattern, other, to, n, ret, buffers, evals >>

ToLower ==
  /\ pc = "start"
  /\ op' = "to_lower"
  /\ out' = to_lower(string)
  /\ pc' = "done"
  /\ UNCHANGED << scan, position, conditions >>
  /\ UNCHANGED << string, pattern, other, to, n, ret, buffers, evals >>

\* to_upper applied to the result of to_upper; the first result is kept
ToUpperAgain ==
  /\ pc = "done" /\ op = "to_upper"
  /\ op' = "to_upper_twice"
  /\ buffers' = << out >>
  /\ out' = to_upper(out)
  /\ UNCHANGED << scan, position, conditions >>
  /\ UNCHANGED << string, pattern, other, to, n, pc, ret, evals >>

NextCase == ToUpper \/ ToLower \/ ToUpperAgain

SpecCase == InitCase /\ [][NextCase]_vars

\* plaintext u8::to_ascii_uppercase and u8::to_ascii_lowercase
Upper(b) == IF 97 <= b /\ b <= 122 THEN b - 32 ELSE b

Lower(b) == IF 65 <= b /\ b <= 90 THEN b + 32 ELSE b

\* C20: to_upper subtracts 32 from every byte in 'a'..'z' and to_lower adds
\* 32 to every byte in 'A'..'Z'; every other byte, the padding zeros
\* included, is unchanged, the length is kept, and to_upper applied twice
\* gives what it gives once.
C20_Case ==
  pc = "done" =>
    /\ op = "to_upper" =>
         /\ Len(out) = Len(string)
         /\ \A K \in 1..Len(string) : out[K] = Upper(string[K])
    /\ op = "to_lower" =>
         /\ Len(out) = Len(string)
         /\ \A K \in 1..Len(string) : out[K] = Lower(string[K])
    /\ op = "to_upper_twice" => out = buffers[1]

\* to_upper was applied twice to a padded string with a lowercase letter and
\* a byte just outside the range
C20_Witness ==
  /\ pc = "done" /\ op = "to_upper_twice"
  /\ Len(string) > Len(Content(string))
  /\ \E K \in 1..Len(string) : string[K] = 122 /\ out[K] = 90
  /\ \E K \in 1..Len(string) : string[K] = 123 /\ out[K] = 123

(***************************************************************************)
(* repeat                                                                  *)
(***************************************************************************)
\* the upper bound of the count given to repeat
MAX_REPETITIONS == 16

\* repeat whose copy flag also holds for slot index = repetitions
repeat_one_more(s, repetitions) ==
  bubble_zeroes_right(
    [K \in 1..(MAX_REPETITIONS * Len(s)) |->
      if_then_else(le(as_u8((K - 1) \div Len(s)), repetitions),
                   s[((K - 1) % Len(s)) + 1], zero)])

\* slot i * str_len + j holds string[j] when i < repetitions, zero otherwise
repeat(s, repetitions) ==
  bubble_zeroes_right(
    [K \in 1..(MAX_REPETITIONS * Len(s)) |->
      if_then_else(lt(as_u8((K - 1) \div Len(s)), repetitions),
                   s[((K - 1) % Len(s)) + 1], zero)])

InitRepeat ==
  /\ string \in Haystacks
  /\ pattern = << >>
  /\ to = << >>
  /\ other = << >>
  /\ n \in 0..MAX_REPETITIONS
  /\ op = "none"
  /\ pc = "start"
  /\ ret = 0
  /\ out = << >>
  /\ buffers = << >>
  /\ evals = 0
  /\ scan = << >>
  /\ position = 0
  /\ conditions = {}

Repeat ==
  /\ pc = "start"
  /\ op' = "repeat"
  /\ out' = repeat(string, n)
  /\ pc' = "done"
  /\ UNCHANGED << scan, position, conditions >>
  /\ UNCHANGED << string, pattern, other, to, n, ret, buffers, evals >>

NextRepeat == Repeat

SpecRepeat == InitRepeat /\ [][NextRepeat]_vars

\* plaintext str::repeat
RECURSIVE PlainRepeat(_, _)
PlainRepeat(s, k) == IF k = 0 THEN << >> ELSE s \o PlainRepeat(s, k - 1)

\* C21: for 0 <= n <= MAX_REPETITIONS the content of repeat(s, n) is s
\* repeated n times, in an output of capacity MAX_REPETITIONS * s.len().
C21_Repeat ==
  (pc = "done" /\ op = "repeat") =>
    /\ Content(out) = PlainRepeat(Content(string), n)
    /\ Len(out) = MAX_REPETITIONS * Len(string)

\* a padded, non-empty string was repeated the largest number of times
C21_Witness ==
  /\ pc = "done" /\ op = "repeat"
  /\ n = MAX_REPETITIONS
  /\ Content(string) # << >> /\ Len(string) > Len(Content(string))
  /\ Content(out) # << >>

(***************************************************************************)
(* The pattern-found flag of the split family.                             *)
(***************************************************************************)
ForwardSplits == {"split", "splitn", "split_inclusive", "split_terminator"}

ReverseSplits == {"rsplit", "rsplitn", "rsplit_once", "rsplit_terminator"}

\* the delimiter matched at some position of the forward / reverse scan
MatchedForward ==
  \E i \in 0..(Len(string) - 1) : split_pattern_found(string, pattern, i) = one

MatchedReverse ==
  \E i \in 0..(Len(string) - 1) : rsplit_pattern_found(string, pattern, i) = one

\* C22: the pattern-found flag returned with the buffers is 1 if the
\* delimiter matched at at least one scan position and 0 if it matched
\* nowhere.
C22_PatternFound ==
  pc = "done" =>
    /\ op \in ForwardSplits => ret = Bool01(MatchedForward)
    /\ op \in ReverseSplits => ret = Bool01(MatchedReverse)

\* C23: for contains, ends_with, find, rfind, strip_suffix, replace, split
\* and rsplit the result on a haystack followed by padding zeros (flag,
\* offset, non-zero bytes of every output string or buffer) is the result on
\* the same haystack without padding.
C23_PaddingIndependent ==
  pc = "done" =>
    LET unpadded == Content(string) IN
    /\ op = "contains" => ret = contains(unpadded, pattern)
    /\ op = "ends_with" => ret = ends_with(unpadded, pattern)
    /\ op = "find" => ret = find(unpadded, pattern)
    /\ op = "rfind" => ret = rfind(unpadded, pattern)
    /\ op = "strip_suffix" =>
         /\ ret = strip_suffix(unpadded, pattern).flag
         /\ Content(out) = Content(strip_suffix(unpadded, pattern).string)
    /\ op = "replace" => Content(out) = Content(replace(unpadded, pattern, to))
    /\ op = "split" =>
         /\ ret = split(unpadded, pattern).pattern_found
         /\ Segments(buffers) = Segments(split(unpadded, pattern).buffers)
    /\ op = "rsplit" =>
         /\ ret = rsplit(unpadded, pattern).pattern_found
         /\ Segments(buffers) = Segments(rsplit(unpadded, pattern).buffers)

\* C23, the buffers of split alone
C23_SplitGrid ==
  (pc = "done" /\ op = "split") =>
    Segments(buffers) = Segments(split(Content(string), pattern).buffers)

\* C23, the buffers of rsplit alone
C23_RSplitGrid ==
  (pc = "done" /\ op = "rsplit") =>
    Segments(buffers) = Segments(rsplit(Content(string), pattern).buffers)

\* C23, replace with a non-empty from
C23_ReplaceNonEmpty ==
  (pc = "done" /\ op = "replace" /\ pattern # << >>) =>
    Content(out) = Content(replace(Content(string), pattern, to))

(***************************************************************************)
(* The values that reach a select as its condition or flip as its          *)
(* argument, per operation: the set of their decrypted values.             *)
(***************************************************************************)
rfind_conditions(s0, p) ==
  LET s == push(s0, zero) IN
  IF Len(p) = 0 THEN {ne(s[i + 1], zero) : i \in 0..(Len(s) - 1)}
  ELSE IF Len(s) < Len(p) THEN {}
  ELSE {pattern_found_at(s, p, i) :
          i \in 0..(adjust_end_of_pattern(Len(s) - Len(p)) - 1)}

ends_with_conditions(s, needle) ==
  IF (Len(s) = 0 /\ Len(needle) = 0) \/ Len(s) < Len(needle) THEN {}
  ELSE {non_zero_window(s, i, Len(needle)) : i \in 0..(Len(s) - Len(needle))}

strip_suffix_conditions(s, needle) ==
  IF Len(s) < Len(needle) THEN {}
  ELSE LET offsets == 0..(Len(s) - Len(needle))
           pattern_position ==
             suffix_position_loop(s, needle, 0, Len(s) - Len(needle), 255)
       IN {pattern_found_at(s, needle, i) : i \in offsets}
          \cup {non_zero_window(s, i, Len(needle)) : i \in offsets}
          \cup (IF Len(needle) = 0 THEN {}
                ELSE {eq(as_u8(i), pattern_position) : i \in offsets})

\* handle_longer_from: pattern_found_flag of every offset, after the counter
longer_from_conditions(bytes0, from, to0, cnt, use_counter) ==
  LET bytes == push(bytes0, zero)
      padded_to == to0 \o Zeros(abs_difference(Len(from), Len(to0)))
      st0 == [counter |-> 0, result |-> bytes]
      before(i) == longer_from_loop(st0, bytes, from, padded_to, cnt,
                                    use_counter, 0, i - 1)
  IN IF Len(from) > Len(bytes) \/ Len(padded_to) = 0 THEN {}
     ELSE {count_match(before(i).counter, pattern_found_at(bytes, from, i),
                       cnt, use_counter).flag :
             i \in 0..(adjust_end_of_pattern(Len(bytes) - Len(from)) - 1)}

\* handle_shorter_from: pattern_found_flag of every offset, after the mask
\* and the counter
shorter_from_conditions(bytes0, from, to0, cnt, use_counter) ==
  LET bytes == push(bytes0, zero)
      max_len == max_possible_output_len(bytes, from, to0)
      st0 == [counter |-> 0,
              result |-> bytes \o Zeros(max_len - Len(bytes)),
              mask |-> [K \in 1..max_len |-> one]]
      before(i) == shorter_from_loop(st0, from, to0, cnt, use_counter, 0, i - 1)
      raw(i) == IF Len(from) = 0
                  THEN (IF i % (Len(to0) + 1) = 0 THEN one ELSE zero)
                  ELSE masked_flag(before(i).result, before(i).mask, from, i,
                                   Len(from))
  IN {count_match(before(i).counter, raw(i), cnt, use_counter).flag :
        i \in 0..(max_len - Len(to0) - 1)}

replace_conditions(s, from, to0) ==
  IF Len(from) >= Len(to0)
    THEN longer_from_conditions(s, from, to0, 0, FALSE)
    ELSE shorter_from_conditions(s, from, to0, 0, FALSE)

\* one position of the scan of _split and _rsplit: the copy flag of every
\* buffer, the flipped stop flag and the condition of the index increment
step_conditions(st, pattern_found, cnt, allow_copying) ==
  LET adv == advance_buffer(st, pattern_found, cnt)
  IN {LET flag == eq(as_u8(J - 1), st.current_copy_buffer)
      IN IF cnt # NoCount THEN bitand(flag, allow_copying) ELSE flag :
        J \in 1..Len(st.result)}
     \cup (IF cnt = NoCount THEN {pattern_found}
           ELSE {adv.stop_counter_increment,
                 bitand(pattern_found, flip(adv.stop_counter_increment))})

\* the scan state of _split before position i
split_before(s, p, cnt, i) ==
  split_scan(scan_init(s, first_buffer(s, p, cnt)), s, p, cnt,
             allow_copying_flag(cnt), 0, i - 1)

\* the scan state of _rsplit before position i (positions visited downwards)
rsplit_before(s, p, cnt, i) ==
  rsplit_scan(scan_init(s, zero), s, p, cnt, allow_copying_flag(cnt),
              i + 1, Len(s) - 1)

terminator_conditions(result, p, size) ==
  IF size = 0 THEN {}
  ELSE UNION {{is_buff_zero(result[J], size),
               non_zero_buffer_found(result, size, J),
               bitand(bitand(starts_with(result[J], p),
                             is_buff_zero(result[J], size)),
                      flip(non_zero_buffer_found(result, size, J)))} :
                J \in 1..Len(result)}

finalize_conditions(result, p, is_inclusive, is_terminator, cnt, size) ==
  IF cnt # NoCount
    THEN UNION {replace_conditions(bubble_zeroes_left(result[J]), p,
                                   Zeros(Len(p)))
                \cup (IF Len(result[J]) = 0 THEN {}
                      ELSE {stop_replacing_pattern(cnt, J - 1)}) :
                  J \in 1..Len(result)}
    ELSE (IF is_inclusive THEN {}
          ELSE UNION {replace_conditions(result[J], p, Zeros(Len(p))) :
                        J \in 1..Len(result)})
         \cup (IF is_terminator
                 THEN terminator_conditions(
                        erase_pattern(result, p, is_inclusive), p, size)
                 ELSE {})

_split_conditions(s, p, is_inclusive, is_terminator, cnt) ==
  (IF Len(p) = 0 /\ cnt # NoCount
     THEN {bitand(gt(cnt, one), le(cnt, len(s)))} ELSE {})
  \cup UNION {step_conditions(split_before(s, p, cnt, i),
                              split_pattern_found(s, p, i), cnt,
                              allow_copying_flag(cnt)) : i \in 0..(Len(s) - 1)}
  \cup finalize_conditions(split_before(s, p, cnt, Len(s)).result, p,
                           is_inclusive, is_terminator, cnt, Len(s))

_rsplit_conditions(s, p, is_inclusive, is_terminator, cnt) ==
  UNION {step_conditions(rsplit_before(s, p, cnt, i),
                         rsplit_pattern_found(s, p, i), cnt,
                         allow_copying_flag(cnt)) : i \in 0..(Len(s) - 1)}
  \cup finalize_conditions(rsplit_before(s, p, cnt, -1).result, p,
                           is_inclusive, is_terminator, cnt, Len(s))

\* the scan state of split_ascii_whitespace before position i
whitespace_before(s, i) ==
  whitespace_scan([result |-> [J \in 1..Len(s) |-> Zeros(Len(s))],
                   current_copy_buffer |-> zero,
                   previous_was_whitespace |-> one,
                   global_pattern_found |-> one], s, 0, i - 1)

split_ascii_whitespace_conditions(s) ==
  UNION {LET st == whitespace_before(s, i)
             pattern_found == is_whitespace(s[i + 1])
             should_increment_buffer ==
               bitand(pattern_found, flip(st.previous_was_whitespace))
             cur == whitespace_step(st, s, i).current_copy_buffer
         IN {st.previous_was_whitespace, should_increment_buffer, pattern_found}
            \cup {bitand(eq(as_u8(J - 1), cur), flip(pattern_found)) :
                    J \in 1..Len(s)} : i \in 0..(Len(s) - 1)}
  \cup UNION {{is_whitespace(whitespace_before(s, Len(s)).result[J][K]) :
                 K \in 1..Len(s)} : J \in 1..Len(s)}

comparison_conditions(s0, o0, operation) ==
  LET min0 == Min({Len(s0), Len(o0)})
      s == IF min0 = 0 THEN push(s0, zero) ELSE s0
      o == IF min0 = 0 THEN push(o0, zero) ELSE o0
      st0 == [encountered_comparison |-> zero,
              has_flag_became_one |-> zero, ret |-> 255]
      before(i) == comparison_loop(st0, s, o, operation, 0, i - 1)
      last == Max({min0, 1})
  IN UNION {{before(i).has_flag_became_one,
             bitand(comparison_step(before(i), s, o, operation, i)
                      .encountered_comparison,
                    flip(before(i).has_flag_became_one))} : i \in 0..(last - 1)}
     \cup {eq(before(last).ret, 255)}

(***************************************************************************)
(* Every operation that selects or flips, called once; conditions holds    *)
(* the values that reached a select as condition or flip as argument.      *)
(***************************************************************************)
\* haystacks with whitespace, upper-case letters and a byte above 'z'
Mixed == {<<97, 32, 98>>, <<65, 32, 0>>, <<32, 10, 97>>, <<90, 123, 0>>}

\* delimiters: empty, one byte, a repeated byte, two different bytes
CondPatterns == {<< >>, <<97>>, <<98>>, <<97, 97>>, <<97, 98>>}

\* replacements shorter than, as long as and longer than the delimiters
CondReplacements == {<< >>, <<98>>, <<98, 97>>, <<98, 98, 97>>}

\* right operands of the comparisons
CondOthers == {<< >>, <<97>>, <<97, 98, 0>>}

InitConditions ==
  /\ string \in Haystacks \cup Mixed
  /\ pattern \in CondPatterns
  /\ to = << >>
  /\ other = << >>
  /\ n = 0
  /\ op = "none"
  /\ pc = "start"
  /\ ret = 0
  /\ out = << >>
  /\ buffers = << >>
  /\ evals = 0
  /\ scan = << >>
  /\ position = 0
  /\ conditions = {}

CondFind ==
  /\ pc = "start"
  /\ op' = "find"
  /\ ret' = find(string, pattern)
  /\ conditions' =
       IF (Len(string) = 0 /\ Len(pattern) = 0) \/ Len(string) < Len(pattern)
         THEN {}
         ELSE {pattern_found_at(string, pattern, i) :
                 i \in 0..(Len(string) - Len(pattern))}
  /\ pc' = "done"
  /\ UNCHANGED << string, pattern, other, to, n, out, buffers, evals, scan, position >>

CondRFind ==
  /\ pc = "start"
  /\ op' = "rfind"
  /\ ret' = rfind(string, pattern)
  /\ conditions' = rfind_conditions(string, pattern)
  /\ pc' = "done"
  /\ UNCHANGED << string, pattern, other, to, n, out, buffers, evals, scan, position >>

CondEndsWith ==
  /\ pc = "start"
  /\ op' = "ends_with"
  /\ ret' = ends_with(string, pattern)
  /\ conditions' = ends_with_conditions(string, pattern)
  /\ pc' = "done"
  /\ UNCHANGED << string, pattern, other, to, n, out, buffers, evals, scan, position >>

CondStripPrefix ==
  /\ pc = "start"
  /\ op' = "strip_prefix"
  /\ LET r == strip_prefix(string, pattern)
     IN out' = r.string /\ ret' = r.flag
  /\ conditions' = IF Len(pattern) > Len(string) \/ Len(pattern) = 0 THEN {}
                   ELSE {pattern_found_at(string, pattern, 0)}
  /\ pc' = "done"
  /\ UNCHANGED << string, pattern, other, to, n, buffers, evals, scan, position >>

CondStripSuffix ==
  /\ pc = "start"
  /\ op' = "strip_suffix"
  /\ LET r == strip_suffix(string, pattern)
     IN out' = r.string /\ ret' = r.flag
  /\ conditions' = strip_suffix_conditions(string, pattern)
  /\ pc' = "done"
  /\ UNCHANGED << string, pattern, other, to, n, buffers, evals, scan, position >>

CondReplace ==
  /\ pc = "start"
  /\ op' = "replace"
  /\ to' \in CondReplacements
  /\ out' = replace(string, pattern, to')
  /\ conditions' = replace_conditions(string, pattern, to')
  /\ pc' = "done"
  /\ UNCHANGED << string, pattern, other, n, ret, buffers, evals, scan, position >>

CondReplaceN ==
  /\ pc = "start"
  /\ op' = "replacen"
  /\ to' \in CondReplacements
  /\ n' \in 0..MaxN
  /\ out' = replacen(string, pattern, to', n')
  /\ conditions' =
       IF Len(pattern) >= Len(to')
         THEN longer_from_conditions(string, pattern, to', n', TRUE)
         ELSE shorter_from_conditions(string, pattern, to', n', TRUE)
  /\ pc' = "done"
  /\ UNCHANGED << string, pattern, other, ret, buffers, evals, scan, position >>

\* the callers of _split: split, splitn, split_inclusive, split_terminator
Cond_Split ==
  /\ pc = "start"
  /\ \E variant \in {"split", "splitn", "split_inclusive", "split_terminator"} :
       \E count \in (IF variant = "splitn" THEN 0..MaxN ELSE {n}) :
         LET is_inclusive == variant = "split_inclusive"
             is_terminator == variant = "split_terminator"
             cnt == IF variant = "splitn" THEN count ELSE NoCount
             r == _split(string, pattern, is_inclusive, is_terminator, cnt)
         IN /\ op' = variant
            /\ n' = count
            /\ buffers' = r.buffers
            /\ ret' = r.pattern_found
            /\ conditions' = _split_conditions(string, pattern, is_inclusive,
                                               is_terminator, cnt)
  /\ pc' = "done"
  /\ UNCHANGED << string, pattern, other, to, out, evals, scan, position >>

\* the callers of _rsplit: rsplit, rsplitn, rsplit_once, rsplit_terminator
Cond_RSplit ==
  /\ pc = "start"
  /\ \E variant \in {"rsplit", "rsplitn", "rsplit_once", "rsplit_terminator"} :
       \E count \in (IF variant = "rsplitn" THEN 0..MaxN ELSE {n}) :
         LET is_inclusive == variant = "none"
             is_terminator == variant = "rsplit_terminator"
             cnt == CASE variant = "rsplitn" -> count
                      [] variant = "rsplit_once" -> 2
                      [] OTHER -> NoCount
             r == _rsplit(string, pattern, is_inclusive, is_terminator, cnt)
         IN /\ op' = variant
            /\ n' = count
            /\ buffers' = r.buffers
            /\ ret' = r.pattern_found
            /\ conditions' = _rsplit_conditions(string, pattern, is_inclusive,
                                               is_terminator, cnt)
  /\ pc' = "done"
  /\ UNCHANGED << string, pattern, other, to, out, evals, scan, position >>

CondSplitAsciiWhitespace ==
  /\ pc = "start"
  /\ op' = "split_ascii_whitespace"
  /\ LET r == split_ascii_whitespace(string)
     IN buffers' = r.buffers /\ ret' = r.pattern_found
  /\ conditions' = split_ascii_whitespace_conditions(string)
  /\ pc' = "done"
  /\ UNCHANGED << string, pattern, other, to, n, out, evals, scan, position >>

\* the callers of comparison: lt, le, gt, ge
CondComparison ==
  /\ pc = "start"
  /\ \E operation \in {"LessThan", "LessEqual", "GreaterThan", "GreaterEqual"} :
       /\ op' = operation
       /\ other' \in CondOthers
       /\ ret' = comparison(string, other', operation)
       /\ conditions' = comparison_conditions(string, other', operation)
  /\ pc' = "done"
  /\ UNCHANGED << string, pattern, to, n, out, buffers, evals, scan, position >>

CondEq ==
  /\ pc = "start"
  /\ op' = "eq"
  /\ other' \in CondOthers
  /\ ret' = str_eq(string, other')
  /\ conditions' = {ne(len(string), len(other'))}
  /\ pc' = "done"
  /\ UNCHANGED << string, pattern, to, n, out, buffers, evals, scan, position >>

CondToUpper ==
  /\ pc = "start"
  /\ op' = "to_upper"
  /\ out' = to_upper(string)
  /\ conditions' = UNION {{is_lowercase(string[K]), flip(is_lowercase(string[K]))} :
                          K \in 1..Len(string)}
  /\ pc' = "done"
  /\ UNCHANGED << string, pattern, other, to, n, ret, buffers, evals, scan, position >>

CondToLower ==
  /\ pc = "start"
  /\ op' = "to_lower"
  /\ out' = to_lower(string)
  /\ conditions' = UNION {{is_uppercase(string[K]), flip(is_uppercase(string[K]))} :
                          K \in 1..Len(string)}
  /\ pc' = "done"
  /\ UNCHANGED << string, pattern, other, to, n, ret, buffers, evals, scan, position >>

CondRepeat ==
  /\ pc = "start"
  /\ op' = "repeat"
  /\ n' \in 0..MaxN
  /\ out' = repeat(string, n')
  /\ conditions' = IF Len(string) = 0 THEN {}
                   ELSE {lt(as_u8(i), n') : i \in 0..(MAX_REPETITIONS - 1)}
  /\ pc' = "done"
  /\ UNCHANGED << string, pattern, other, to, ret, buffers, evals, scan, position >>

NextConditions ==
  \/ CondFind \/ CondRFind \/ CondEndsWith \/ CondStripPrefix
  \/ CondStripSuffix \/ CondReplace \/ CondReplaceN \/ Cond_Split
  \/ Cond_RSplit \/ CondSplitAsciiWhitespace \/ CondComparison \/ CondEq
  \/ CondToUpper \/ CondToLower \/ CondRepeat

SpecConditions == InitConditions /\ [][NextConditions]_vars

\* C24: in every operation, with counts below 256, every value used as the
\* condition of a select and every value passed to flip decrypts to 0 or 1.
C24_BooleanConditions == pc = "done" => conditions \subseteq {0, 1}

\* a bounded split whose scan selected on both values and flipped the stop flag
C24_Witness ==
  pc = "done" /\ op = "splitn" /\ n >= 1 /\ n < ByteMod /\ conditions = {0, 1}

(***************************************************************************)
(* The scan of _split and _rsplit, one position per step.  scan is the     *)
(* loop state, position the number of positions already processed.         *)
(***************************************************************************)
ForwardScans == {"split", "splitn"}

ReverseScans == {"rsplit", "rsplitn"}

\* a haystack of one more byte than a u8 can index
LongRun == [i \in 1..(ByteMod + 1) |-> 97]

\* the Option n of the call: Some(n) for the bounded variants
ScanCount == IF op \in {"splitn", "rsplitn"} THEN n ELSE NoCount

InitScan ==
  /\ \/ /\ string \in Haystacks \cup Runs
        /\ pattern \in Patterns
        /\ n \in 0..MaxN
        /\ op \in ForwardScans \cup ReverseScans
     \/ /\ string = LongRun
        /\ pattern = << 98 >>
        /\ n = 1
        /\ op \in ForwardScans
  /\ to = << >>
  /\ other = << >>
  /\ pc = "start"
  /\ ret = 0
  /\ out = << >>
  /\ buffers = << >>
  /\ evals = 0
  /\ scan = << >>
  /\ position = 0
  /\ conditions = {}

BeginSplit ==
  /\ pc = "start" /\ op \in ForwardScans
  /\ scan' = scan_init(string, first_buffer(string, pattern, ScanCount))
  /\ pc' = "scan"
  /\ UNCHANGED << op, string, pattern, other, to, n, ret, out, buffers, evals,
                  position, conditions >>

BeginRSplit ==
  /\ pc = "start" /\ op \in ReverseScans
  /\ scan' = scan_init(string, zero)
  /\ pc' = "scan"
  /\ UNCHANGED << op, string, pattern, other, to, n, ret, out, buffers, evals,
                  position, conditions >>

\* `for i in 0..string.len()`: position i = position
SplitStep ==
  /\ pc = "scan" /\ op \in ForwardScans /\ position < Len(string)
  /\ scan' = split_step(scan, string, pattern, ScanCount,
                        allow_copying_flag(ScanCount), position)
  /\ position' = position + 1
  /\ UNCHANGED << op, string, pattern, other, to, n, pc, ret, out, buffers,
                  evals, conditions >>

\* `for i in (0..string.len()).rev()`: position i = len - 1 - position
RSplitStep ==
  /\ pc = "scan" /\ op \in ReverseScans /\ position < Len(string)
  /\ scan' = rsplit_step(scan, string, pattern, ScanCount,
                         allow_copying_flag(ScanCount),
                         Len(string) - 1 - position)
  /\ position' = position + 1
  /\ UNCHANGED << op, string, pattern, other, to, n, pc, ret, out, buffers,
                  evals, conditions >>

\* the scan is over: `match &n` and FheSplit::new
FinishScan ==
  /\ pc = "scan" /\ position = Len(string)
  /\ buffers' = finalize(scan.result, pattern, FALSE, FALSE, ScanCount,
                         Len(string))
  /\ ret' = scan.global_pattern_found
  /\ pc' = "done"
  /\ UNCHANGED << op, string, pattern, other, to, n, out, evals, scan,
                  position, conditions >>

NextScan == BeginSplit \/ BeginRSplit \/ SplitStep \/ RSplitStep \/ FinishScan

SpecScan == InitScan /\ [][NextScan]_vars

\* the stepwise scan returns what the whole operation returns
ScanAgrees ==
  pc = "done" =>
    LET r == CASE op = "split" -> split(string, pattern)
               [] op = "rsplit" -> rsplit(string, pattern)
               [] op = "splitn" -> splitn(string, pattern, n)
               [] op = "rsplitn" -> rsplitn(string, pattern, n)
    IN buffers = r.buffers /\ ret = r.pattern_found

BoundedScan == pc = "scan" /\ op \in {"splitn", "rsplitn"} /\ n >= 1

\* the buffers after the first n have received no byte
OnlyFirstBuffers ==
  \A J \in 1..Len(scan.result) : J > n => scan.result[J] = Zeros(Len(string))

\* C25: during the scan of splitn and rsplitn with n >= 1 the stop flag,
\* once 1, stays 1 at every later position, the current-buffer index never
\* exceeds n - 1, and only the first n buffers ever receive a byte.
C25_BoundedScan ==
  [][BoundedScan' =>
       /\ (BoundedScan /\ scan.stop_counter_increment = 1)
            => scan'.stop_counter_increment = 1
       /\ scan'.current_copy_buffer <= n' - 1
       /\ OnlyFirstBuffers']_vars

\* C25, the stop flag alone
C25_StopStays ==
  [][(BoundedScan /\ BoundedScan' /\ scan.stop_counter_increment = 1)
       => scan'.stop_counter_increment = 1]_vars

\* C25, the buffer index alone
C25_IndexBounded == BoundedScan => scan.current_copy_buffer <= n - 1

\* C25, the buffers alone, for capacities a u8 can index
C25_FirstBuffersShort ==
  (BoundedScan /\ Len(string) <= ByteMod) => OnlyFirstBuffers

UnboundedScan == pc = "scan" /\ op \in {"split", "rsplit"}

\* the columns whose position has been processed
Processed ==
  IF op \in ForwardScans THEN 1..position
  ELSE (Len(string) - position + 1)..Len(string)

\* column c holds its haystack byte in exactly one buffer and zero elsewhere
WrittenOnce(c) ==
  /\ \A J \in 1..Len(scan.result) : scan.result[J][c] \in {0, string[c]}
  /\ string[c] # 0 =>
       Cardinality({J \in 1..Len(scan.result) : scan.result[J][c] # 0}) = 1

\* C27: during the scan of split and rsplit without n the current-buffer
\* index at the k-th processed position is at most k, so smaller than the
\* number of buffers, and every processed haystack byte is in exactly one
\* buffer, at its own column.
C27_EveryByteOnce ==
  UnboundedScan =>
    /\ position < Len(string) =>
         scan.current_copy_buffer <= position
         /\ scan.current_copy_buffer < Len(string)
    /\ \A c \in Processed : WrittenOnce(c)

\* C27, the buffer index alone
C27_IndexBelowPosition ==
  (UnboundedScan /\ position < Len(string)) =>
    scan.current_copy_buffer <= position

\* C27, the bytes alone, for capacities a u8 can index
C27_EveryByteOnceShort ==
  (UnboundedScan /\ Len(string) <= ByteMod) => \A c \in Processed : WrittenOnce(c)

\* real bytes followed only by zero bytes: no non-zero byte follows a zero
Compacted(s) == \A i \in 1..Len(s) : \A j \in 1..Len(s) : (i < j /\ s[i] = 0) => s[j] = 0

\* C26: for a compacted haystack the string returned by replace and by
\* replacen is compacted, in the path from.len() >= to.len() and in the path
\* from.len() < to.len(), an empty from included.
C26_Compacted ==
  (pc = "done" /\ op \in {"replace", "replacen"} /\ Compacted(string)) => Compacted(out)

\* C26 in the path from.len() >= to.len()
C26_LongerFrom ==
  (pc = "done" /\ op \in {"replace", "replacen"} /\ Compacted(string)
     /\ Len(pattern) >= Len(to)) => Compacted(out)

\* C26 in the path from.len() < to.len() with a non-empty from
C26_ShorterFrom ==
  (pc = "done" /\ op \in {"replace", "replacen"} /\ Compacted(string)
     /\ Len(pattern) < Len(to) /\ pattern # << >>) => Compacted(out)

\* handle_longer_from: the offsets whose pattern_found_flag is 1 when the
\* bytes of to are written, i.e. the occurrences that get replaced
longer_from_replaced(bytes0, from, to0, cnt, use_counter) ==
  LET bytes == push(bytes0, zero)
      padded_to == to0 \o Zeros(abs_difference(Len(from), Len(to0)))
      st0 == [counter |-> 0, result |-> bytes]
      before(i) == longer_from_loop(st0, bytes, from, padded_to, cnt,
                                    use_counter, 0, i - 1)
  IN IF Len(from) > Len(bytes) THEN {}
     ELSE {i \in 0..(adjust_end_of_pattern(Len(bytes) - Len(from)) - 1) :
             count_match(before(i).counter, pattern_found_at(bytes, from, i),
                         cnt, use_counter).flag = one}

\* the offsets replaced by the call in the current state
Replaced ==
  longer_from_replaced(string, pattern, to, IF op = "replacen" THEN n ELSE 0,
                       op = "replacen")

\* C28: in the path from.len() >= to.len() of replace and replacen the
\* replaced occurrences are pairwise non-overlapping: after a replacement at
\* offset i none starts at an offset in i+1 .. i+from.len()-1.
C28_NonOverlapping ==
  (pc = "done" /\ op \in {"replace", "replacen"} /\ Len(pattern) >= Len(to)) =>
    \A i \in Replaced : \A j \in Replaced : i < j => j >= i + Len(pattern)

\* C29: for a non-empty pattern the terminator pass changes no byte: the
\* grid returned by split_terminator is byte for byte the grid returned by
\* split on the same input, and that of rsplit_terminator the grid of rsplit.
C29_TerminatorGrid ==
  (pc = "done" /\ pattern # << >>) =>
    /\ op = "split_terminator" => buffers = split(string, pattern).buffers
    /\ op = "rsplit_terminator" => buffers = rsplit(string, pattern).buffers

\* a haystack that ends with the delimiter and has a populated buffer
C29_Witness ==
  /\ pc = "done" /\ op = "split_terminator" /\ pattern # << >>
  /\ EndsWith(Content(string), pattern)
  /\ Segments(buffers) # << >>

\* the columns whose byte strip_suffix changed
Zeroed == {K \in 1..Len(string) : out[K] # string[K]}

\* C30: strip_suffix zeroes the bytes of at most one window, the rightmost
\* padding-free window and only when it matches the pattern, for every
\* capacity: an 8-bit window offset is never taken for the not-found value
\* 255 nor for another offset equal modulo 256.
C30_OneWindow ==
  (pc = "done" /\ op = "strip_suffix") =>
    LET w == Len(Content(string)) - Len(pattern)
    IN \/ Zeroed = {}
       \/ /\ EndsWith(Content(string), pattern)
          /\ Zeroed \subseteq (w + 1)..(w + Len(pattern))

\* C30 for capacities below 255
C30_OneWindowShort ==
  (pc = "done" /\ op = "strip_suffix" /\ Len(string) < MAX_FIND_LENGTH) =>
    LET w == Len(Content(string)) - Len(pattern)
    IN \/ Zeroed = {}
       \/ /\ EndsWith(Content(string), pattern)
          /\ Zeroed = (w + 1)..(w + Len(pattern))

====
